---- MODULE Spec2Model ----
(***************************************************************************)
(* A model of the replay decoding pipeline of warthog:                     *)
(*   ReplayParserService.parse_replay_data   (header, results, author)     *)
(*   WtExtCliClientService.unpack_raw_blk    (the external blk decoder)    *)
(*   VehicleService                          (the vehicle catalog)         *)
(*   BattleRatingTierClassifier              (the tier classification)     *)
(*   ReplayParserService.parse_replay_file   (the end time, from the name) *)
(*   ReplayManagerService                    (ingest, cache, store)        *)
(*                                                                         *)
(* Conventions.  A bytes value is kept as its length and its non-zero      *)
(* regions (every other byte below the length is 0).  A str is a sequence  *)
(* of one-character strings, a bytes slice a sequence of byte values.      *)
(* Floating point ratings are kept in hundredths, datetimes in seconds.    *)
(***************************************************************************)
EXTENDS Integers, Sequences, FiniteSets, TLC

(***************************************************************************)
(* Python helpers                                                          *)
(***************************************************************************)
Min2(a, b) == IF a <= b THEN a ELSE b

Max2(a, b) == IF a >= b THEN a ELSE b

\* data[i] for 0 <= i < data.len
ByteAt(data, i) ==
  LET hit == {s \in DOMAIN data.segs :
                /\ data.segs[s].off <= i
                /\ i < data.segs[s].off + Len(data.segs[s].bytes)}
  IN  IF hit = {} THEN 0
      ELSE LET s == CHOOSE s \in hit : TRUE
           IN  data.segs[s].bytes[i - data.segs[s].off + 1]

\* len(data[a:b]) for 0 <= a <= b
SliceLen(data, a, b) == Max2(0, Min2(b, data.len) - a)

\* data[a:b] for 0 <= a <= b
Slice(data, a, b) == [k \in 1..SliceLen(data, a, b) |-> ByteAt(data, a + k - 1)]

\* data[a:] for 0 <= a
SliceFrom(data, a) ==
  [len  |-> Max2(0, data.len - a),
   segs |-> SelectSeq([s \in DOMAIN data.segs |->
                        [off |-> data.segs[s].off - a, bytes |-> data.segs[s].bytes]],
                      LAMBDA g : g.off >= 0 /\ g.off + Len(g.bytes) <= data.len - a)]

\* struct.unpack("<I", b)[0] for a 4-byte b
UnpackU32(b) == b[1] + 256 * b[2] + 65536 * b[3] + 16777216 * b[4]

\* s.find(x) over the first n elements of s, from position k (1-based); 0 when absent
\* (searched sixteen elements at a time)
RECURSIVE FindFrom(_, _, _, _)
FindFrom(s, n, x, k) ==
  IF k > n THEN 0
  ELSE LET last == Min2(n, k + 15)
           hits == {j \in k..last : s[j] = x}
       IN  IF hits # {} THEN CHOOSE j \in hits : \A i \in hits : j <= i
           ELSE FindFrom(s, n, x, last + 1)

\* does s start with p at position k (1-based)
StartsAt(s, p, k) ==
  /\ k + Len(p) - 1 <= Len(s)
  /\ \A j \in 1..Len(p) : s[k + j - 1] = p[j]

\* p in s
Contains(p, s) == \E k \in 1..(Len(s) - Len(p) + 1) : StartsAt(s, p, k)

\* s.replace(old, "") : every non-overlapping occurrence, left to right (the text
\* before the leftmost occurrence, then the same on the text after it)
RECURSIVE RemoveAll(_, _)
RemoveAll(s, old) ==
  LET hits == {k \in 1..(Len(s) - Len(old) + 1) : StartsAt(s, old, k)}
  IN  IF Len(old) = 0 \/ hits = {} THEN s
      ELSE LET k == CHOOSE k \in hits : \A j \in hits : k <= j
           IN  SubSeq(s, 1, k - 1) \o RemoveAll(SubSeq(s, k + Len(old), Len(s)), old)

UpperCase == <<"A","B","C","D","E","F","G","H","I","J","K","L","M",
               "N","O","P","Q","R","S","T","U","V","W","X","Y","Z">>

LowerCase == <<"a","b","c","d","e","f","g","h","i","j","k","l","m",
               "n","o","p","q","r","s","t","u","v","w","x","y","z">>

\* s.lower()
Lower(s) ==
  [k \in 1..Len(s) |->
     LET u == {j \in 1..26 : UpperCase[j] = s[k]}
     IN  IF u = {} THEN s[k] ELSE LowerCase[CHOOSE j \in u : TRUE]]

\* the ASCII characters the header strings of the model are decoded to
Ascii(b) ==
  CASE b = 46  -> "."
    [] b = 47  -> "/"
    [] b = 95  -> "_"
    [] b = 32  -> " "
    [] b >= 97 /\ b <= 122 -> LowerCase[b - 96]
    [] b >= 65 /\ b <= 90  -> UpperCase[b - 64]
    [] OTHER -> "?"

\* bytes.decode("utf-8", errors="ignore") on ASCII bytes; bytes >= 128 are dropped
Decode(bs) ==
  LET keep == SelectSeq(bs, LAMBDA b : b < 128)
  IN  [k \in 1..Len(keep) |-> Ascii(keep[k])]

HexDigits == <<"0","1","2","3","4","5","6","7","8","9","a","b","c","d","e","f">>

\* format(struct.unpack("<Q", b)[0], "x") for an 8-byte b: the nibbles from the most
\* significant byte down, without the leading zeros ("0" for zero)
FormatHex(b) ==
  LET nib == [k \in 1..16 |->
                LET byte == b[8 - ((k - 1) \div 2)]
                IN  IF k % 2 = 1 THEN byte \div 16 ELSE byte % 16]
      nz  == {k \in 1..16 : nib[k] # 0}
  IN  IF nz = {} THEN <<"0">>
      ELSE LET first == CHOOSE k \in nz : \A j \in nz : k <= j
           IN  [k \in 1..(16 - first + 1) |-> HexDigits[nib[first + k - 1] + 1]]

(***************************************************************************)
(* ReplayParserService: the fixed header                                   *)
(***************************************************************************)
\* a signature that differs in its last byte
MAGIC_Off == <<229, 172, 0, 17>>

MAGIC == <<229, 172, 0, 16>>

NoTime == -1

\* JSON scalars that carry an id: an int, or a str of its decimal digits ("" is v = 0)
JInt(i) == [t |-> "int", v |-> i]

JStr(i) == [t |-> "str", v |-> i]

\* str(x)
Str(x) == [t |-> "str", v |-> x.v]

EmptyStr == JStr(0)

\* A dict is kept as the set of its keys and a record of their values (a key that is
\* absent holds the zero of its type).  d.get(key, default):
Get(d, key, default) == IF key \in d.has THEN d.val[key] ELSE default

\* {} where playersInfo, uiScriptsData and the results are expected
EmptyInfos == <<>>

EmptyUi == [has |-> {}, val |-> [playersInfo |-> EmptyInfos]]

EmptyDict ==
  [has |-> {},
   val |-> [status |-> "", timePlayed |-> 0, player |-> <<>>, uiScriptsData |-> EmptyUi,
            authorUserId |-> EmptyStr]]

\* the values of a stat row none of whose keys is present
ZeroRow ==
  [userId |-> EmptyStr, kills |-> 0, groundKills |-> 0, navalKills |-> 0, teamKills |-> 0,
   aiKills |-> 0, aiGroundKills |-> 0, aiNavalKills |-> 0, assists |-> 0, deaths |-> 0,
   captureZone |-> 0, damageZone |-> 0, score |-> 0, awardDamage |-> 0,
   missileEvades |-> 0]

\* Player(): the pydantic defaults
NewPlayer ==
  [user_id |-> [t |-> "str", v |-> 0], platform |-> <<>>, platform_type |-> "None", country |-> "None",
   lineup |-> <<>>, is_premium |-> FALSE,
   battle_rating |-> -1, min_battle_rating |-> -1, mean_battle_rating |-> -1,
   kills |-> [air |-> 0, ground |-> 0, naval |-> 0, team |-> 0,
              ai_air |-> 0, ai_ground |-> 0, ai_naval |-> 0],
   assists |-> 0, deaths |-> 0, capture_zone |-> 0, damage_zone |-> 0,
   score |-> 0, award_damage |-> 0, missile_evades |-> 0]

\* Replay(): the pydantic defaults
NewReplay ==
  [version |-> 0, session_id |-> <<>>, level |-> <<>>, level_settings |-> <<>>,
   battle_type |-> "unknown", environment |-> <<>>, visibility |-> <<>>,
   session_type |-> 0, loc_name |-> <<>>, start_time |-> NoTime, end_time |-> NoTime,
   time_limit_minutes |-> 0, score_limit |-> 0,
   battle_class |-> <<>>, battle_kill_streak |-> <<>>,
   status |-> "left", time_played |-> 0,
   author |-> NewPlayer, players |-> <<>>]

\* the whole region decoded, not cut at its first null byte
ReadString_Whole(data, offset, length) ==
  Decode(Slice(data, offset, offset + length))

\* ReplayParserService._read_string
ReadString(data, offset, length) ==
  LET n           == SliceLen(data, offset, offset + length)
      string_data == Slice(data, offset, offset + length)
      null_index  == FindFrom(string_data, n, 0, 1)
      cut         == IF null_index # 0 THEN null_index - 1 ELSE n
  IN  Decode([k \in 1..cut |-> string_data[k]])

\* the running offset of parse_replay_data before each read
OffVersion == 4

OffLevel == OffVersion + 4

OffLevelSettings == OffLevel + 128

OffBattleTypeAlt == OffLevelSettings + 260

OffEnvironment == OffBattleTypeAlt + 128

OffVisibility == OffEnvironment + 128

OffRez == OffVisibility + 32

OffDifficulty == OffRez + 4

OffSessionType == OffDifficulty + 1 + 35

OffSessionId == OffSessionType + 1 + 7

OffSetSize == OffSessionId + 8 + 4

\* a skip of 28 bytes where the code skips 32
OffLocName_Short == OffSetSize + 4 + 28

OffLocName == OffSetSize + 4 + 32

OffStartTime == OffLocName + 128

OffTimeLimit == OffStartTime + 4

OffScoreLimit == OffTimeLimit + 4

OffBattleClass == OffScoreLimit + 4 + 48

OffBattleKillStreak == OffBattleClass + 128

OffEnd == OffBattleKillStreak + 128

\* the whole difficulty byte compared, not its low nibble
BattleTypeOf_Byte(difficulty_byte) ==
  IF difficulty_byte = 0 THEN "arcade"
  ELSE IF difficulty_byte = 5 THEN "realistic"
  ELSE IF difficulty_byte = 10 THEN "simulation"
  ELSE "unknown"

\* the difficulty byte's low nibble
BattleTypeOf(difficulty_byte) ==
  LET difficulty_value == difficulty_byte % 16
  IN  IF difficulty_value = 0 THEN "arcade"
      ELSE IF difficulty_value = 5 THEN "realistic"
      ELSE IF difficulty_value = 10 THEN "simulation"
      ELSE "unknown"

\* The reads of parse_replay_data in program order, numbered 1..17 (version, level,
\* level_settings, battle_type_alt, environment, visibility, rez_offset, difficulty,
\* session_type, session_id, set_size, loc_name, start_time, time_limit, score_limit,
\* battle_class, battle_kill_streak).  struct.unpack raises struct.error on a slice of
\* the wrong size, indexing raises IndexError past the end, _read_string never raises.
HeaderRaises(data) ==
  [k \in 1..17 |->
     CASE k = 1  -> IF SliceLen(data, OffVersion, OffVersion + 4) # 4 THEN "struct.error" ELSE "none"
       [] k = 7  -> IF SliceLen(data, OffRez, OffRez + 4) # 4 THEN "struct.error" ELSE "none"
       [] k = 8  -> IF ~(OffDifficulty < data.len) THEN "IndexError" ELSE "none"
       [] k = 9  -> IF ~(OffSessionType < data.len) THEN "IndexError" ELSE "none"
       [] k = 10 -> IF SliceLen(data, OffSessionId, OffSessionId + 8) # 8 THEN "struct.error" ELSE "none"
       [] k = 11 -> IF SliceLen(data, OffSetSize, OffSetSize + 4) # 4 THEN "struct.error" ELSE "none"
       [] k = 13 -> IF SliceLen(data, OffStartTime, OffStartTime + 4) # 4 THEN "struct.error" ELSE "none"
       [] k = 14 -> IF SliceLen(data, OffTimeLimit, OffTimeLimit + 4) # 4 THEN "struct.error" ELSE "none"
       [] k = 15 -> IF SliceLen(data, OffScoreLimit, OffScoreLimit + 4) # 4 THEN "struct.error" ELSE "none"
       [] OTHER  -> "none"]

\* the first read that raises, 18 when none does
FailStep(data) ==
  LET bad == {k \in 1..17 : HeaderRaises(data)[k] # "none"}
  IN  IF bad = {} THEN 18 ELSE CHOOSE k \in bad : \A j \in bad : k <= j

\* the Replay object after the reads before FailStep have been assigned (lines 52-144)
HeaderFields(r, data) ==
  LET f == FailStep(data)
      levelpath == <<"l","e","v","e","l","s","/">>
      binext == <<".","b","i","n">>
  IN  [r EXCEPT
        !.version = IF f > 1 THEN UnpackU32(Slice(data, OffVersion, OffVersion + 4)) ELSE @,
        !.level = IF f > 2
                  THEN RemoveAll(RemoveAll(ReadString(data, OffLevel, 128), levelpath), binext)
                  ELSE @,
        !.level_settings = IF f > 3 THEN ReadString(data, OffLevelSettings, 260) ELSE @,
        !.environment = IF f > 5 THEN ReadString(data, OffEnvironment, 128) ELSE @,
        !.visibility = IF f > 6 THEN ReadString(data, OffVisibility, 32) ELSE @,
        !.battle_type = IF f > 8 THEN BattleTypeOf(ByteAt(data, OffDifficulty)) ELSE @,
        !.session_type = IF f > 9 THEN ByteAt(data, OffSessionType) ELSE @,
        !.session_id = IF f > 10 THEN FormatHex(Slice(data, OffSessionId, OffSessionId + 8)) ELSE @,
        !.loc_name = IF f > 12 THEN ReadString(data, OffLocName, 128) ELSE @,
        !.start_time = IF f > 13 THEN UnpackU32(Slice(data, OffStartTime, OffStartTime + 4)) ELSE @,
        !.time_limit_minutes = IF f > 14 THEN UnpackU32(Slice(data, OffTimeLimit, OffTimeLimit + 4)) ELSE @,
        !.score_limit = IF f > 15 THEN UnpackU32(Slice(data, OffScoreLimit, OffScoreLimit + 4)) ELSE @,
        !.battle_class = IF f > 16 THEN ReadString(data, OffBattleClass, 128) ELSE @,
        !.battle_kill_streak = IF f > 17 THEN ReadString(data, OffBattleKillStreak, 128) ELSE @]

\* the local rez_offset (line 81), 0 before it is read
RezOffsetOf(data) ==
  IF FailStep(data) > 7 THEN UnpackU32(Slice(data, OffRez, OffRez + 4)) ELSE 0

(***************************************************************************)
(* VehicleService: the catalog, one bucket of vehicles per release datetime *)
(***************************************************************************)
\* self._vehicle_data as loaded by _load_vehicle_data: "va" is re-rated and "vb" turns
\* premium in the second release, "vc" appears with it, "vx" is in no release
VehicleData ==
  (10 :> ("va" :> [arcade |-> 100, realistic |-> 130, simulation |-> 170, is_premium |-> FALSE] @@
          "vb" :> [arcade |-> 230, realistic |-> 200, simulation |-> 200, is_premium |-> FALSE]))
  @@
  (20 :> ("va" :> [arcade |-> 130, realistic |-> 130, simulation |-> 200, is_premium |-> FALSE] @@
          "vb" :> [arcade |-> 230, realistic |-> 270, simulation |-> 200, is_premium |-> TRUE] @@
          "vc" :> [arcade |-> 330, realistic |-> 300, simulation |-> 370, is_premium |-> FALSE]))

\* sorted(keys, reverse=True)
RECURSIVE SortedReverse(_)
SortedReverse(keys) ==
  IF keys = {} THEN <<>>
  ELSE LET m == CHOOSE k \in keys : \A j \in keys : j <= k
       IN  <<m>> \o SortedReverse(keys \ {m})

\* the for loop of _get_vehicle_data_bucket from index i on; NoTime stands for None
RECURSIVE BucketLoop(_, _, _, _, _)
BucketLoop(datetime_buckets, i, best, previous, search_datetime) ==
  IF i > Len(datetime_buckets) THEN best
  ELSE LET datetime_bucket == datetime_buckets[i]
       IN  IF previous # NoTime
           THEN LET best1 == IF search_datetime >= datetime_bucket /\ search_datetime <= previous
                             THEN datetime_bucket ELSE best
                IN  IF search_datetime >= previous
                    THEN previous
                    ELSE BucketLoop(datetime_buckets, i + 1, best1, datetime_bucket, search_datetime)
           ELSE BucketLoop(datetime_buckets, i + 1, best, datetime_bucket, search_datetime)

\* the newest bucket, whatever the datetime
GetVehicleDataBucket_Newest(vehicle_data, search_datetime) ==
  vehicle_data[SortedReverse(DOMAIN vehicle_data)[1]]

\* VehicleService._get_vehicle_data_bucket
GetVehicleDataBucket(vehicle_data, search_datetime) ==
  LET datetime_buckets == SortedReverse(DOMAIN vehicle_data)
      found == BucketLoop(datetime_buckets, 1, NoTime, NoTime, search_datetime)
      best_datetime_bucket == IF found = NoTime THEN datetime_buckets[1] ELSE found
  IN  vehicle_data[best_datetime_bucket]

VARIABLE service_vehicle_data  \* VehicleService._vehicle_data, as _load_vehicle_data left it

\* VehicleService.get_vehicles_by_internal_name; the result is the set of the vehicle
\* found ({} for None).  search_datetime is the replay's start time, never None here.
GetVehiclesByInternalName(internal_name, search_datetime) ==
  LET vehicle_data == GetVehicleDataBucket(service_vehicle_data, search_datetime)
  IN  IF internal_name \in DOMAIN vehicle_data THEN {vehicle_data[internal_name]} ELSE {}

\* VehicleService.is_vehicle_premium
IsVehiclePremium(vehicle_internal_names, search_datetime) ==
  \E k \in 1..Len(vehicle_internal_names) :
    \E vehicle \in GetVehiclesByInternalName(vehicle_internal_names[k], search_datetime) :
      vehicle.is_premium

(***************************************************************************)
(* ReplayParserService: the battle ratings of a lineup                     *)
(***************************************************************************)
\* the list `vehicles` of _get_transformed_player_battle_rating (lines 297-301)
RECURSIVE ResolveLineup(_, _)
ResolveLineup(lineup, battle_datetime) ==
  IF Len(lineup) = 0 THEN <<>>
  ELSE LET vehicle == GetVehiclesByInternalName(lineup[1], battle_datetime)
           rest    == ResolveLineup(Tail(lineup), battle_datetime)
       IN  IF vehicle # {} THEN <<CHOOSE v \in vehicle : TRUE>> \o rest ELSE rest

\* the list `battle_ratings` (lines 303-312); defined when RatingsRaise is FALSE
BattleRatings(lineup, battle_type, battle_datetime) ==
  LET vehicles == ResolveLineup(lineup, battle_datetime)
  IN  [k \in 1..Len(vehicles) |->
         IF battle_type = "arcade" THEN vehicles[k].arcade
         ELSE IF battle_type = "realistic" THEN vehicles[k].realistic
         ELSE vehicles[k].simulation]

\* max(xs), min(xs), sum(xs) of a non-empty list
RECURSIVE PyMax(_)
PyMax(xs) == IF Len(xs) = 1 THEN xs[1] ELSE Max2(xs[1], PyMax(Tail(xs)))

RECURSIVE PyMin(_)
PyMin(xs) == IF Len(xs) = 1 THEN xs[1] ELSE Min2(xs[1], PyMin(Tail(xs)))

RECURSIVE PySum(_)
PySum(xs) == IF Len(xs) = 0 THEN 0 ELSE xs[1] + PySum(Tail(xs))

\* round(x, 2) in hundredths, for x = num / den hundredths and den > 0: the nearest
\* hundredth; on an exact tie the double nearest to x lies on either side of it (or
\* on it, then half-to-even), so both neighbours are possible results
Round2(num, den) ==
  LET f == num \div den
      r == num % den
  IN  IF 2 * r < den THEN {f}
      ELSE IF 2 * r > den THEN {f + 1}
      ELSE {f, f + 1}

\* the mean truncated instead of rounded
ComputeBattleRatingMean_Floor(battle_ratings) ==
  {PySum(battle_ratings) \div Len(battle_ratings)}

\* the sum, not divided by the number of ratings
ComputeBattleRatingMean_Sum(battle_ratings) == {PySum(battle_ratings)}

\* compute_battle_rating_mean (lines 275-276)
ComputeBattleRatingMean(battle_ratings) == Round2(PySum(battle_ratings), Len(battle_ratings))

\* no ValueError for an unknown battle type
RatingsRaise_EmptyOnly(lineup, battle_type, battle_datetime) ==
  Len(ResolveLineup(lineup, battle_datetime)) = 0

\* does _get_transformed_player_battle_rating raise ValueError: an unknown battle type
\* with a vehicle to rate (line 312), or max()/min() of an empty list (line 314)
RatingsRaise(lineup, battle_type, battle_datetime) ==
  LET vehicles == ResolveLineup(lineup, battle_datetime)
  IN  \/ Len(vehicles) > 0 /\ battle_type \notin {"arcade", "realistic", "simulation"}
      \/ Len(vehicles) = 0

\* _get_player_battle_rating
GetPlayerBattleRating(lineup, battle_type, battle_datetime) ==
  PyMax(BattleRatings(lineup, battle_type, battle_datetime))

\* _get_player_min_battle_rating
GetPlayerMinBattleRating(lineup, battle_type, battle_datetime) ==
  PyMin(BattleRatings(lineup, battle_type, battle_datetime))

\* _get_player_mean_battle_rating: the possible results
GetPlayerMeanBattleRating(lineup, battle_type, battle_datetime) ==
  ComputeBattleRatingMean(BattleRatings(lineup, battle_type, battle_datetime))

(***************************************************************************)
(* ReplayParserService._create_player_from_json                            *)
(***************************************************************************)
\* the PC branches tried before the console branches
PlatformTypeOf_PcFirst(platform) ==
  LET p == Lower(platform)
  IN  IF Contains(<<"w","i","n">>, p) THEN "pc"
      ELSE IF Contains(<<"m","a","c">>, p) THEN "pc"
      ELSE IF Contains(<<"l","i","n","u","x">>, p) THEN "pc"
      ELSE IF Contains(<<"p","c">>, p) THEN "pc"
      ELSE IF Contains(<<"x","b","o","x">>, p) THEN "xboxlive"
      ELSE IF Contains(<<"p","s">>, p) THEN "psn"
      ELSE "raise"

\* the platform branches (lines 336-355); "raise" is the ValueError of line 355
PlatformTypeOf(platform) ==
  LET p == Lower(platform)
  IN  IF Contains(<<"x","b","o","x">>, p) THEN "xboxlive"
      ELSE IF Contains(<<"p","s">>, p) THEN "psn"
      ELSE IF Contains(<<"w","i","n">>, p) THEN "pc"
      ELSE IF Contains(<<"m","a","c">>, p) THEN "pc"
      ELSE IF Contains(<<"l","i","n","u","x">>, p) THEN "pc"
      ELSE IF Contains(<<"p","c">>, p) THEN "pc"
      ELSE "raise"

\* the members of Country in definition order, with their values
Country ==
  << [name |-> "CHINA",   value |-> <<"C","h","i","n","a">>],
     [name |-> "FRANCE",  value |-> <<"F","r","a","n","c","e">>],
     [name |-> "GERMANY", value |-> <<"G","e","r","m","a","n","y">>],
     [name |-> "ISRAEL",  value |-> <<"I","s","r","a","e","l">>],
     [name |-> "ITALY",   value |-> <<"I","t","a","l","y">>],
     [name |-> "JAPAN",   value |-> <<"J","a","p","a","n">>],
     [name |-> "RUSSIA",  value |-> <<"R","u","s","s","i","a">>],
     [name |-> "SWEDEN",  value |-> <<"S","w","e","d","e","n">>],
     [name |-> "UK",      value |-> <<"U","K">>],
     [name |-> "USA",     value |-> <<"U","S","A">>] >>

\* s.strip()
Whitespace == {" ", "\t", "\n", "\r"}

RECURSIVE LStrip(_)
LStrip(s) == IF Len(s) > 0 /\ s[1] \in Whitespace THEN LStrip(Tail(s)) ELSE s

RECURSIVE RStrip(_)
RStrip(s) ==
  IF Len(s) > 0 /\ s[Len(s)] \in Whitespace THEN RStrip(SubSeq(s, 1, Len(s) - 1)) ELSE s

Strip(s) == RStrip(LStrip(s))

\* the aliases tried before the members, and the last member that matches
GetCountryByName_AliasFirst(name0) ==
  LET name == Lower(Strip(name0))
      hits == {k \in 1..Len(Country) : Contains(Lower(Country[k].value), name)}
  IN  IF Contains(<<"b","r","i","t","a","i","n">>, name) THEN "UK"
      ELSE IF Contains(<<"u","s","s","r">>, name) THEN "RUSSIA"
      ELSE IF hits # {} THEN Country[CHOOSE k \in hits : \A j \in hits : k >= j].name
      ELSE "raise"

\* Country.get_country_by_name; "raise" is the ValueError of line 34
GetCountryByName(name0) ==
  LET name == Lower(Strip(name0))
      hits == {k \in 1..Len(Country) : Contains(Lower(Country[k].value), name)}
  IN  IF hits # {} THEN Country[CHOOSE k \in hits : \A j \in hits : k <= j].name
      ELSE IF Contains(<<"b","r","i","t","a","i","n">>, name) THEN "UK"
      ELSE IF Contains(<<"u","s","s","r">>, name) THEN "RUSSIA"
      ELSE "raise"

\* where _create_player_from_json raises its ValueError, "none" when it returns
CreatePlayerRaises(player_info, player_data, battle_type, start_time) ==
  IF PlatformTypeOf(Get(player_info, "platform", <<>>)) = "raise"
    THEN "platform"
  ELSE IF GetCountryByName(Get(player_info, "country", <<>>)) = "raise"
    THEN "get_country_by_name"
  ELSE IF RatingsRaise(Get(player_info, "crafts", <<>>), battle_type, start_time)
    THEN "_get_transformed_player_battle_rating"
  ELSE "none"

\* the players _create_player_from_json can return (one per possible rounding of the mean)
CreatePlayerFromJson(player_info, player_data, battle_type, start_time) ==
  LET lineup == Get(player_info, "crafts", <<>>)
  IN  { [user_id            |-> Str(Get(player_info, "id", EmptyStr)),
         platform           |-> Get(player_info, "platform", <<>>),
         platform_type      |-> PlatformTypeOf(Get(player_info, "platform", <<>>)),
         country            |-> GetCountryByName(Get(player_info, "country", <<>>)),
         lineup             |-> lineup,
         is_premium         |-> IsVehiclePremium(lineup, start_time),
         battle_rating      |-> GetPlayerBattleRating(lineup, battle_type, start_time),
         min_battle_rating  |-> GetPlayerMinBattleRating(lineup, battle_type, start_time),
         mean_battle_rating |-> mean,
         kills              |-> [air       |-> Get(player_data, "kills", 0),
                                 ground    |-> Get(player_data, "groundKills", 0),
                                 naval     |-> Get(player_data, "navalKills", 0),
                                 team      |-> Get(player_data, "teamKills", 0),
                                 ai_air    |-> Get(player_data, "aiKills", 0),
                                 ai_ground |-> Get(player_data, "aiGroundKills", 0),
                                 ai_naval  |-> Get(player_data, "aiNavalKills", 0)],
         assists            |-> Get(player_data, "assists", 0),
         deaths             |-> Get(player_data, "deaths", 0),
         capture_zone       |-> Get(player_data, "captureZone", 0),
         damage_zone        |-> Get(player_data, "damageZone", 0),
         score              |-> Get(player_data, "score", 0),
         award_damage       |-> Get(player_data, "awardDamage", 0),
         missile_evades     |-> Get(player_data, "missileEvades", 0)]
        : mean \in GetPlayerMeanBattleRating(lineup, battle_type, start_time) }

\* a lookup that takes any entry for a match
MatchingInfos_Any(players_info, user_id) == 1..Len(players_info)

\* the lookup loop of _parse_results (lines 226-230): the indices of the entries of
\* players_info whose id matches; the loop breaks at the first
MatchingInfos(players_info, user_id) ==
  {k \in 1..Len(players_info) : Str(Get(players_info[k], "id", EmptyStr)) = user_id}

\* `player_info` after the loop, as a set ({} for None)
FindPlayerInfo(players_info, user_id) ==
  LET hits == MatchingInfos(players_info, user_id)
  IN  IF hits = {} THEN {}
      ELSE {players_info[CHOOSE k \in hits : \A j \in hits : k <= j]}

\* `if player_info:` an empty dict is falsy as None is
Truthy(player_info) == player_info # {} /\ \A i \in player_info : i.has # {}

(***************************************************************************)
(* WtExtCliClientService.unpack_raw_blk                                    *)
(***************************************************************************)
\* The executable's behaviour on the bytes it is given:
\*   kind "ok"       exit code 0 and stdout holds the JSON object `out`
\*   kind "timeout"  subprocess.TimeoutExpired
\*   kind "nonzero"  a non-zero exit code
\*   kind "badjson"  exit code 0 and stdout is no JSON
\* unpack_raw_blk raises RuntimeError in the last three cases.
UnpackRawBlkRaises(exe) == exe.kind \in {"timeout", "nonzero", "badjson"}

UnpackRawBlk(exe) == exe.out

(***************************************************************************)
(* The state of one parse_replay_data call                                 *)
(***************************************************************************)
VARIABLES
  replay_data,   \* the argument: the bytes of the .wrpl file
  exe,           \* how the wt_ext_cli executable behaves on the bytes it is given
  replay,        \* the Replay object under construction
  rez_offset,    \* the local rez_offset
  results,       \* the local results
  row,           \* the position of the for loop of _parse_results in players_array
  warnings,      \* the user ids logged by logger.warning in _parse_results
  caught,        \* the exception logged by the except clause of line 153
  exe_calls,     \* how many times the executable has been run
  pc,            \* "magic", "header", "unpack", "results", "players", "returned", "raised";
                 \* around them, in ReplayManagerService and parse_replay_file: "ingest",
                 \* "file", "file_returned", "file_raised", "ingested", "stored",
                 \* "directory", "directory_returned", "directory_store"
  error,         \* the exception parse_replay_data raised, "none" otherwise
  raised_in,     \* the step that raised it
  tier_args,     \* the arguments of a call of BattleRatingTierClassifier
  tier_out,      \* its result, "none" before the call
  replay_file_path,    \* the path given to ingest_raw_replay_file
  allow_overwrite,     \* ReplayManagerService._allow_overwrite
  loaded_session_ids,  \* ReplayManagerService._loaded_session_ids
  loaded_replays,      \* ReplayManagerService._loaded_replays, one record per key
  processed_files,     \* the files of the processed replay directory
  ingested,            \* what ingest_raw_replay_file returned: "None", "replay" ("none" before)
  store_out,           \* the path store_replay returned (NoPath before)
  replay_directory,    \* the directory given to ingest_raw_replay_files_from_directory
  replay_files,        \* its local replay_files, the part the for loop has not reached
  replay_map,          \* its local loaded_replays, in insertion order
  stored,              \* how many items of it start_collection has handed to store_replay
  call,                \* which of two concurrent parse_replay_data calls is running (1 or 2)
  suspended,           \* the arguments and locals of the call that is not running
  switches             \* how many times the running call has changed

parseVars == <<replay_data, exe, replay, rez_offset, results, row, warnings, caught,
               exe_calls, pc, error, raised_in>>

catalogVars == <<service_vehicle_data>>

tierVars == <<tier_args, tier_out>>

dirVars == <<replay_directory, replay_files, replay_map, stored>>

fileVars == <<replay_file_path, allow_overwrite, loaded_session_ids, loaded_replays,
              processed_files, ingested, store_out, dirVars>>

vars == <<service_vehicle_data, replay_data, exe, replay, rez_offset, results, row, warnings, caught,
          exe_calls, pc, error, raised_in, tier_args, tier_out,
          replay_file_path, allow_overwrite, loaded_session_ids, loaded_replays,
          processed_files, ingested, store_out, replay_directory, replay_files,
          replay_map, stored, call, suspended, switches>>

pairVars == <<call, suspended, switches>>

\* the locals of _parse_results (lines 218-220)
PlayersArray == Get(results, "player", <<>>)

PlayersInfo == Get(Get(results, "uiScriptsData", EmptyUi), "playersInfo", EmptyInfos)

Raise(exception, where) ==
  /\ pc' = "raised"
  /\ error' = exception
  /\ raised_in' = where

\* lines 46-50: the magic number
CheckMagic ==
  /\ pc = "magic"
  /\ IF Slice(replay_data, 0, 4) # MAGIC
     THEN Raise("ValueError", "magic")
     ELSE pc' = "header" /\ UNCHANGED <<error, raised_in>>
  /\ UNCHANGED <<replay_data, exe, replay, rez_offset, results, row, warnings, caught, exe_calls>>
  /\ UNCHANGED <<catalogVars, tierVars, fileVars, pairVars>>

\* lines 52-146: the fixed header
DecodeHeader ==
  /\ pc = "header"
  /\ replay' = HeaderFields(replay, replay_data)
  /\ rez_offset' = RezOffsetOf(replay_data)
  /\ IF FailStep(replay_data) <= 17
     THEN Raise(HeaderRaises(replay_data)[FailStep(replay_data)], "header")
     ELSE pc' = "unpack" /\ UNCHANGED <<error, raised_in>>
  /\ UNCHANGED <<replay_data, exe, results, row, warnings, caught, exe_calls>>
  /\ UNCHANGED <<catalogVars, tierVars, fileVars, pairVars>>

\* the executable run a second time after a failure
UnpackResults_Retry ==
  /\ pc = "unpack"
  /\ IF rez_offset > 0
     THEN /\ exe_calls' = exe_calls + 1
          /\ IF UnpackRawBlkRaises(exe)
             THEN /\ results' = EmptyDict /\ caught' = "RuntimeError"
                  /\ pc' = IF exe_calls = 0 THEN "unpack" ELSE "results"
             ELSE results' = UnpackRawBlk(exe) /\ pc' = "results" /\ UNCHANGED caught
     ELSE /\ results' = EmptyDict
          /\ pc' = "results"
          /\ UNCHANGED <<exe_calls, caught>>
  /\ UNCHANGED <<replay_data, exe, replay, rez_offset, row, warnings, error, raised_in>>
  /\ UNCHANGED <<catalogVars, tierVars, fileVars, pairVars>>

\* the executable run whatever the offset of the results
UnpackResults_Always ==
  /\ pc = "unpack"
  /\ exe_calls' = exe_calls + 1
  /\ IF UnpackRawBlkRaises(exe)
     THEN results' = EmptyDict /\ caught' = "RuntimeError"
     ELSE results' = UnpackRawBlk(exe) /\ UNCHANGED caught
  /\ pc' = "results"
  /\ UNCHANGED <<replay_data, exe, replay, rez_offset, row, warnings, error, raised_in>>
  /\ UNCHANGED <<catalogVars, tierVars, fileVars, pairVars>>

\* lines 148-156: the results blob, through unpack_raw_blk when there is one
UnpackResults ==
  /\ pc = "unpack"
  /\ IF rez_offset > 0
     THEN /\ exe_calls' = exe_calls + 1
          /\ IF UnpackRawBlkRaises(exe)
             THEN results' = EmptyDict /\ caught' = "RuntimeError"
             ELSE results' = UnpackRawBlk(exe) /\ UNCHANGED caught
     ELSE /\ results' = EmptyDict
          /\ UNCHANGED <<exe_calls, caught>>
  /\ pc' = "results"
  /\ UNCHANGED <<replay_data, exe, replay, rez_offset, row, warnings, error, raised_in>>
  /\ UNCHANGED <<catalogVars, tierVars, fileVars, pairVars>>

\* _parse_results, lines 216-220
ParseResultsBegin ==
  /\ pc = "results"
  /\ replay' = [replay EXCEPT !.status = Get(results, "status", "left"),
                              !.time_played = Get(results, "timePlayed", 0)]
  /\ row' = 1
  /\ pc' = "players"
  /\ UNCHANGED <<replay_data, exe, rez_offset, results, warnings, caught, exe_calls,
                 error, raised_in>>
  /\ UNCHANGED <<catalogVars, tierVars, fileVars, pairVars>>

\* _parse_results, lines 222-236: one iteration of the loop over players_array
ParseRow ==
  /\ pc = "players"
  /\ row <= Len(PlayersArray)
  /\ LET player_data == PlayersArray[row]
         user_id     == Str(Get(player_data, "userId", EmptyStr))
         player_info == FindPlayerInfo(PlayersInfo, user_id)
     IN  IF Truthy(player_info)
         THEN LET info == CHOOSE i \in player_info : TRUE
                  where == CreatePlayerRaises(info, player_data, replay.battle_type,
                                              replay.start_time)
              IN  IF where # "none"
                  THEN /\ Raise("ValueError", where)
                       /\ UNCHANGED <<replay, row, warnings>>
                  ELSE /\ \E player \in CreatePlayerFromJson(info, player_data,
                                          replay.battle_type, replay.start_time) :
                            replay' = [replay EXCEPT !.players = Append(@, player)]
                       /\ row' = row + 1
                       /\ UNCHANGED <<warnings, pc, error, raised_in>>
         ELSE /\ warnings' = Append(warnings, user_id)
              /\ row' = row + 1
              /\ UNCHANGED <<replay, pc, error, raised_in>>
  /\ UNCHANGED <<replay_data, exe, rez_offset, results, caught, exe_calls>>
  /\ UNCHANGED <<catalogVars, tierVars, fileVars, pairVars>>

\* next(..., Player()): a default instead of StopIteration
FirstPlayerWithId_Default(players, author_user_id) ==
  LET hits == {k \in 1..Len(players) : players[k].user_id = author_user_id}
  IN  IF hits = {} THEN {NewPlayer}
      ELSE {players[CHOOSE k \in hits : \A j \in hits : k <= j]}

\* the last player with the id instead of the first
FirstPlayerWithId_Last(players, author_user_id) ==
  LET hits == {k \in 1..Len(players) : players[k].user_id = author_user_id}
  IN  IF hits = {} THEN {}
      ELSE {players[CHOOSE k \in hits : \A j \in hits : k >= j]}

\* next(player for player in players if player.user_id == author_user_id), as a set
FirstPlayerWithId(players, author_user_id) ==
  LET hits == {k \in 1..Len(players) : players[k].user_id = author_user_id}
  IN  IF hits = {} THEN {}
      ELSE {players[CHOOSE k \in hits : \A j \in hits : k <= j]}

\* lines 159-163, once the loop of _parse_results is over: the author, and the return
BuildAuthor ==
  /\ pc = "players"
  /\ row > Len(PlayersArray)
  /\ LET author_user_id == Get(results, "authorUserId", EmptyStr)
         found == FirstPlayerWithId(replay.players, author_user_id)
     IN  IF found = {}
         THEN Raise("StopIteration", "author") /\ UNCHANGED replay
         ELSE /\ replay' = [replay EXCEPT !.author = CHOOSE p \in found : TRUE]
              /\ pc' = "returned"
              /\ UNCHANGED <<error, raised_in>>
  /\ UNCHANGED <<replay_data, exe, rez_offset, results, row, warnings, caught, exe_calls>>
  /\ UNCHANGED <<catalogVars, tierVars, fileVars, pairVars>>

Next ==
  \/ CheckMagic
  \/ DecodeHeader
  \/ UnpackResults
  \/ ParseResultsBegin
  \/ ParseRow
  \/ BuildAuthor

(***************************************************************************)
(* Two parse_replay_data calls on one ReplayParserService, in two threads   *)
(***************************************************************************)
MaxSwitches == 4

\* the arguments and locals of the running call (lines 33-46, 149, 160)
Locals ==
  [replay_data |-> replay_data, exe |-> exe, replay |-> replay, rez_offset |-> rez_offset,
   results |-> results, row |-> row, warnings |-> warnings, caught |-> caught,
   exe_calls |-> exe_calls, pc |-> pc, error |-> error, raised_in |-> raised_in]

\* `results` kept in one place for both calls instead of in each call's frame
SwitchThread_SharedResults ==
  /\ suspended.pc \notin {"idle", "returned", "raised"}
  /\ switches < MaxSwitches
  /\ switches' = switches + 1
  /\ call' = 3 - call
  /\ suspended' = Locals
  /\ replay_data' = suspended.replay_data
  /\ exe' = suspended.exe
  /\ replay' = suspended.replay
  /\ rez_offset' = suspended.rez_offset
  /\ row' = suspended.row
  /\ warnings' = suspended.warnings
  /\ caught' = suspended.caught
  /\ exe_calls' = suspended.exe_calls
  /\ pc' = suspended.pc
  /\ error' = suspended.error
  /\ raised_in' = suspended.raised_in
  /\ UNCHANGED results
  /\ UNCHANGED <<catalogVars, tierVars, fileVars>>

\* The interpreter stops the running thread and runs the other, which still has a step
\* to take.  A call's arguments and locals live in its own frame; the two calls share
\* the service object, whose attributes (the vehicle catalog, the client of the
\* executable) no step writes.
SwitchThread ==
  /\ suspended.pc \notin {"idle", "returned", "raised"}
  /\ switches < MaxSwitches
  /\ switches' = switches + 1
  /\ call' = 3 - call
  /\ suspended' = Locals
  /\ replay_data' = suspended.replay_data
  /\ exe' = suspended.exe
  /\ replay' = suspended.replay
  /\ rez_offset' = suspended.rez_offset
  /\ results' = suspended.results
  /\ row' = suspended.row
  /\ warnings' = suspended.warnings
  /\ caught' = suspended.caught
  /\ exe_calls' = suspended.exe_calls
  /\ pc' = suspended.pc
  /\ error' = suspended.error
  /\ raised_in' = suspended.raised_in
  /\ UNCHANGED <<catalogVars, tierVars, fileVars>>

NextPair ==
  \/ Next
  \/ SwitchThread

(***************************************************************************)
(* ReplayManagerService and ReplayParserService.parse_replay_file, as       *)
(* start_collection runs them on one replay file                            *)
(***************************************************************************)
\* ingest_raw_replay_file, lines 150-156: the path must exist and end in .wrpl
IngestBegin ==
  /\ pc = "ingest"
  /\ IF ~replay_file_path.exists
        \/ Lower(replay_file_path.suffix) # <<".","w","r","p","l">>
     THEN ingested' = "None" /\ pc' = "ingested"
     ELSE pc' = "file" /\ UNCHANGED ingested
  /\ UNCHANGED <<replay_file_path, allow_overwrite, loaded_session_ids, loaded_replays,
                 processed_files, store_out, dirVars>>
  /\ UNCHANGED <<replay_data, exe, replay, rez_offset, results, row, warnings, caught,
                 exe_calls, error, raised_in>>
  /\ UNCHANGED <<catalogVars, tierVars, pairVars>>

\* parse_replay_file, lines 179-187: the file is read and handed to parse_replay_data
ParseReplayFileBegin ==
  /\ pc = "file"
  /\ IF ~replay_file_path.exists
     THEN /\ pc' = "file_raised"
          /\ error' = "FileNotFoundError"
          /\ raised_in' = "parse_replay_file"
     ELSE pc' = "magic" /\ UNCHANGED <<error, raised_in>>
  /\ UNCHANGED <<replay_data, exe, replay, rez_offset, results, row, warnings, caught, exe_calls>>
  /\ UNCHANGED <<catalogVars, tierVars, fileVars, pairVars>>

\* the file name's time written to start_time as well
ParseReplayFileEnd_StartTime ==
  /\ pc = "returned"
  /\ LET hashes == IF replay_file_path.hashes > 0 THEN replay_file_path.hashes - 1 ELSE 0
     IN  IF hashes > 0 \/ replay_file_path.stamp = NoTime
         THEN /\ pc' = "file_raised"
              /\ error' = "ValueError"
              /\ raised_in' = "strptime"
              /\ UNCHANGED replay
         ELSE /\ replay' = [replay EXCEPT !.end_time = replay_file_path.stamp,
                                          !.start_time = replay_file_path.stamp]
              /\ pc' = "file_returned"
              /\ UNCHANGED <<error, raised_in>>
  /\ UNCHANGED <<replay_data, exe, rez_offset, results, row, warnings, caught, exe_calls>>
  /\ UNCHANGED <<catalogVars, tierVars, fileVars, pairVars>>

\* parse_replay_file, lines 189-195, once parse_replay_data has returned: the end time
\* is read from the file's stem, less one leading "#"; strptime raises ValueError on
\* any other text
ParseReplayFileEnd ==
  /\ pc = "returned"
  /\ LET hashes == IF replay_file_path.hashes > 0 THEN replay_file_path.hashes - 1 ELSE 0
     IN  IF hashes > 0 \/ replay_file_path.stamp = NoTime
         THEN /\ pc' = "file_raised"
              /\ error' = "ValueError"
              /\ raised_in' = "strptime"
              /\ UNCHANGED replay
         ELSE /\ replay' = [replay EXCEPT !.end_time = replay_file_path.stamp]
              /\ pc' = "file_returned"
              /\ UNCHANGED <<error, raised_in>>
  /\ UNCHANGED <<replay_data, exe, rez_offset, results, row, warnings, caught, exe_calls>>
  /\ UNCHANGED <<catalogVars, tierVars, fileVars, pairVars>>

\* parse_replay_file, lines 196-198: what parse_replay_data raised is logged and raised
\* again
ParseReplayFileReraise ==
  /\ pc = "raised"
  /\ pc' = "file_raised"
  /\ UNCHANGED <<replay_data, exe, replay, rez_offset, results, row, warnings, caught,
                 exe_calls, error, raised_in>>
  /\ UNCHANGED <<catalogVars, tierVars, fileVars, pairVars>>

\* does_replay_exist
DoesReplayExist(r) == r.session_id \in loaded_session_ids

\* the session id recorded, the replay not cached
IngestEnd_IdsOnly ==
  /\ pc = "file_returned"
  /\ IF allow_overwrite \/ ~DoesReplayExist(replay)
     THEN loaded_session_ids' = loaded_session_ids \cup {replay.session_id}
     ELSE UNCHANGED loaded_session_ids
  /\ UNCHANGED loaded_replays
  /\ ingested' = "replay"
  /\ pc' = "ingested"
  /\ UNCHANGED <<replay_file_path, allow_overwrite, processed_files, store_out, dirVars>>
  /\ UNCHANGED <<replay_data, exe, replay, rez_offset, results, row, warnings, caught,
                 exe_calls, error, raised_in>>
  /\ UNCHANGED <<catalogVars, tierVars, pairVars>>

\* the replay cached whether or not its session id is loaded already
IngestEnd_Always ==
  /\ pc = "file_returned"
  /\ loaded_session_ids' = loaded_session_ids \cup {replay.session_id}
  /\ loaded_replays' =
       {e \in loaded_replays : e.session_id # replay.session_id}
       \cup {[session_id |-> replay.session_id, path |-> replay_file_path,
               replay |-> replay]}
  /\ ingested' = "replay"
  /\ pc' = "ingested"
  /\ UNCHANGED <<replay_file_path, allow_overwrite, processed_files, store_out, dirVars>>
  /\ UNCHANGED <<replay_data, exe, replay, rez_offset, results, row, warnings, caught,
                 exe_calls, error, raised_in>>
  /\ UNCHANGED <<catalogVars, tierVars, pairVars>>

\* ingest_raw_replay_file, lines 162-169: the replay is cached unless its session id is
\* loaded already and overwriting is off
IngestEnd ==
  /\ pc = "file_returned"
  /\ IF allow_overwrite \/ ~DoesReplayExist(replay)
     THEN /\ loaded_session_ids' = loaded_session_ids \cup {replay.session_id}
          /\ loaded_replays' =
               {e \in loaded_replays : e.session_id # replay.session_id}
               \cup {[session_id |-> replay.session_id, path |-> replay_file_path,
                       replay |-> replay]}
     ELSE UNCHANGED <<loaded_session_ids, loaded_replays>>
  /\ ingested' = "replay"
  /\ pc' = "ingested"
  /\ UNCHANGED <<replay_file_path, allow_overwrite, processed_files, store_out, dirVars>>
  /\ UNCHANGED <<replay_data, exe, replay, rez_offset, results, row, warnings, caught,
                 exe_calls, error, raised_in>>
  /\ UNCHANGED <<catalogVars, tierVars, pairVars>>

\* ingest_raw_replay_file, lines 171-173: any exception is logged, None is returned
IngestCatch ==
  /\ pc = "file_raised"
  /\ ingested' = "None"
  /\ pc' = "ingested"
  /\ UNCHANGED <<replay_file_path, allow_overwrite, loaded_session_ids, loaded_replays,
                 processed_files, store_out, dirVars>>
  /\ UNCHANGED <<replay_data, exe, replay, rez_offset, results, row, warnings, caught,
                 exe_calls, error, raised_in>>
  /\ UNCHANGED <<catalogVars, tierVars, pairVars>>

\* Replay.save_to_file: the file name is made of the start time and the session id
SaveToFile(r) == [name |-> <<r.start_time, r.session_id>>, replay |-> r]

\* the path save_to_file returns: a .json file of the processed replay directory
ProcessedPath(r) ==
  [dir |-> "processed", name |-> SaveToFile(r).name,
   exists |-> TRUE, suffix |-> <<".","j","s","o","n">>, hashes |-> 0, stamp |-> NoTime]

\* store_replay(r): the files of the processed directory after the call
StoredFiles(r) ==
  IF allow_overwrite \/ ~DoesReplayExist(r)
  THEN {f \in processed_files : f.name # SaveToFile(r).name} \cup {SaveToFile(r)}
  ELSE processed_files

\* store_replay(r): the path returned; in the else branch the path cached under the
\* session id (the set of ids and the keys of the cache are equal, so no KeyError)
StoredPath(r) ==
  IF allow_overwrite \/ ~DoesReplayExist(r)
  THEN ProcessedPath(r)
  ELSE (CHOOSE e \in loaded_replays : e.session_id = r.session_id).path

\* store_replay on the replay ingest_raw_replay_file returned (start_collection,
\* lines 66-69)
StoreReplay ==
  /\ pc = "ingested"
  /\ ingested = "replay"
  /\ processed_files' = StoredFiles(replay)
  /\ store_out' = StoredPath(replay)
  /\ pc' = "stored"
  /\ UNCHANGED <<replay_file_path, allow_overwrite, loaded_session_ids, loaded_replays,
                 ingested, dirVars>>
  /\ UNCHANGED <<replay_data, exe, replay, rez_offset, results, row, warnings, caught,
                 exe_calls, error, raised_in>>
  /\ UNCHANGED <<catalogVars, tierVars, pairVars>>

NextFile ==
  \/ IngestBegin
  \/ ParseReplayFileBegin
  \/ Next
  \/ ParseReplayFileEnd
  \/ ParseReplayFileReraise
  \/ IngestEnd
  \/ IngestCatch
  \/ StoreReplay

(***************************************************************************)
(* ReplayManagerService.ingest_raw_replay_files_from_directory, as          *)
(* start_collection runs it on a directory of replay files                  *)
(***************************************************************************)
\* loaded_replays[session_id] = r on a dict kept in insertion order
Put(map, session_id, r) ==
  IF \E k \in 1..Len(map) : map[k].session_id = session_id
  THEN [k \in 1..Len(map) |->
          IF map[k].session_id = session_id THEN [session_id |-> session_id, replay |-> r]
          ELSE map[k]]
  ELSE Append(map, [session_id |-> session_id, replay |-> r])

\* the for loop of lines 201-207 reaches the file f: ingest_raw_replay_file(f) starts
EnterFile(f) ==
  /\ replay_file_path' = f.path
  /\ replay_data' = f.data
  /\ exe' = f.exe
  /\ replay' = NewReplay
  /\ rez_offset' = 0
  /\ results' = EmptyDict
  /\ row' = 0
  /\ warnings' = <<>>
  /\ caught' = "none"
  /\ exe_calls' = 0
  /\ error' = "none"
  /\ raised_in' = "none"
  /\ ingested' = "none"
  /\ pc' = "ingest"

LeaveFiles ==
  UNCHANGED <<replay_file_path, replay_data, exe, replay, rez_offset, results, row,
              warnings, caught, exe_calls, error, raised_in, ingested>>

\* lines 185-201: {} for a missing directory, a path that is no directory or a
\* directory without replay files; otherwise the loop starts on the first file
DirectoryBegin ==
  /\ pc = "directory"
  /\ IF ~replay_directory.exists \/ ~replay_directory.is_dir
        \/ replay_directory.files = <<>>
     THEN /\ pc' = "directory_returned"
          /\ LeaveFiles
          /\ UNCHANGED replay_files
     ELSE /\ EnterFile(replay_directory.files[1])
          /\ replay_files' = Tail(replay_directory.files)
  /\ UNCHANGED <<allow_overwrite, loaded_session_ids, loaded_replays, processed_files,
                 store_out, replay_directory, replay_map, stored>>
  /\ UNCHANGED <<catalogVars, tierVars, pairVars>>

\* a loop that stops at the first file ingest_raw_replay_file returns None for
DirectoryCollect_StopAtNone ==
  /\ pc = "ingested"
  /\ replay_map' = IF ingested = "replay" THEN Put(replay_map, replay.session_id, replay)
                   ELSE replay_map
  /\ IF replay_files = <<>> \/ ingested = "None"
     THEN /\ pc' = "directory_returned"
          /\ LeaveFiles
          /\ UNCHANGED replay_files
     ELSE /\ EnterFile(replay_files[1])
          /\ replay_files' = Tail(replay_files)
  /\ UNCHANGED <<allow_overwrite, loaded_session_ids, loaded_replays, processed_files,
                 store_out, replay_directory, stored>>
  /\ UNCHANGED <<catalogVars, tierVars, pairVars>>

\* lines 203-211: what ingest_raw_replay_file returned is put under its session id
\* unless it is None, and the loop goes on to the next file or the dict is returned
DirectoryCollect ==
  /\ pc = "ingested"
  /\ replay_map' = IF ingested = "replay" THEN Put(replay_map, replay.session_id, replay)
                   ELSE replay_map
  /\ IF replay_files = <<>>
     THEN /\ pc' = "directory_returned"
          /\ LeaveFiles
          /\ UNCHANGED replay_files
     ELSE /\ EnterFile(replay_files[1])
          /\ replay_files' = Tail(replay_files)
  /\ UNCHANGED <<allow_overwrite, loaded_session_ids, loaded_replays, processed_files,
                 store_out, replay_directory, stored>>
  /\ UNCHANGED <<catalogVars, tierVars, pairVars>>

\* start_collection, lines 70-73: store_replay on each replay of the returned dict
DirectoryStore ==
  /\ pc \in {"directory_returned", "directory_store"}
  /\ stored < Len(replay_map)
  /\ processed_files' = StoredFiles(replay_map[stored + 1].replay)
  /\ store_out' = StoredPath(replay_map[stored + 1].replay)
  /\ stored' = stored + 1
  /\ pc' = "directory_store"
  /\ LeaveFiles
  /\ UNCHANGED <<allow_overwrite, loaded_session_ids, loaded_replays,
                 replay_directory, replay_files, replay_map>>
  /\ UNCHANGED <<catalogVars, tierVars, pairVars>>

NextDirectory ==
  \/ DirectoryBegin
  \/ IngestBegin
  \/ ParseReplayFileBegin
  \/ Next
  \/ ParseReplayFileEnd
  \/ ParseReplayFileReraise
  \/ IngestEnd
  \/ IngestCatch
  \/ DirectoryCollect
  \/ DirectoryStore

(***************************************************************************)
(* BattleRatingTierClassifier (deltas and ratings in thousandths)          *)
(***************************************************************************)
\* the balanced band without its end points
\* the third and the fourth branch in each other's place
GetBattleRatingTierFromDelta_Swapped(delta) ==
  IF delta >= 0 THEN "downtier"
  ELSE IF 0 > delta /\ delta > -400 THEN "partial_downtier"
  ELSE IF -400 >= delta /\ delta >= -600 THEN "partial_uptier"
  ELSE IF -600 > delta /\ delta > -1000 THEN "balanced"
  ELSE "uptier"

GetBattleRatingTierFromDelta_Open(delta) ==
  IF delta >= 0 THEN "downtier"
  ELSE IF 0 > delta /\ delta > -400 THEN "partial_downtier"
  ELSE IF -400 > delta /\ delta > -600 THEN "balanced"
  ELSE IF -600 > delta /\ delta > -1000 THEN "partial_uptier"
  ELSE "uptier"

\* get_battle_rating_tier_from_delta
GetBattleRatingTierFromDelta(delta) ==
  IF delta >= 0 THEN "downtier"
  ELSE IF 0 > delta /\ delta > -400 THEN "partial_downtier"
  ELSE IF -400 >= delta /\ delta >= -600 THEN "balanced"
  ELSE IF -600 > delta /\ delta > -1000 THEN "partial_uptier"
  ELSE "uptier"

\* get_battle_rating_tier: the possible results (one per rounding of the delta)
GetBattleRatingTier(player_battle_rating, replay_battle_rating) ==
  { GetBattleRatingTierFromDelta(10 * delta) :
      delta \in Round2(player_battle_rating - replay_battle_rating, 10) }

\* a call of get_battle_rating_tier_from_delta
ClassifyDelta ==
  /\ tier_out = "none"
  /\ tier_args.call = "from_delta"
  /\ tier_out' = GetBattleRatingTierFromDelta(tier_args.delta)
  /\ UNCHANGED <<catalogVars, tier_args, parseVars, fileVars, pairVars>>

\* a call of get_battle_rating_tier
ClassifyPlayer ==
  /\ tier_out = "none"
  /\ tier_args.call = "player"
  /\ tier_out' \in GetBattleRatingTier(tier_args.player, tier_args.replay)
  /\ UNCHANGED <<catalogVars, tier_args, parseVars, fileVars, pairVars>>

NextTier ==
  \/ ClassifyDelta
  \/ ClassifyPlayer

(***************************************************************************)
(* Inputs                                                                  *)
(***************************************************************************)
MaxRows == 2

MaxInfos == 2

MaxLineup == 3

MaxDelta == 1100

SeqsUpTo(S, n) == UNION {[1..k -> S] : k \in 0..n}

EncodeU32(n) == <<n % 256, (n \div 256) % 256, (n \div 65536) % 256, n \div 16777216>>

\* "levels/ab.bin", "ab", "day", "good", "rb"
LevelBytes == <<108, 101, 118, 101, 108, 115, 47, 97, 98, 46, 98, 105, 110>>

\* a .wrpl image of `len` bytes as the game writes it: the magic and the header fields
\* at the offsets of the file format, the rest of the header zero
ReplayFile(magic, difficulty, rez, start, len) ==
  [len  |-> len,
   segs |-> << [off |-> 0,    bytes |-> magic],
               [off |-> 4,    bytes |-> EncodeU32(101)],
               [off |-> 8,    bytes |-> LevelBytes],
               [off |-> 136,  bytes |-> <<97, 98>>],
               [off |-> 524,  bytes |-> <<100, 97, 121>>],
               [off |-> 652,  bytes |-> <<103, 111, 111, 100>>],
               [off |-> 684,  bytes |-> EncodeU32(rez)],
               [off |-> 688,  bytes |-> <<difficulty>>],
               [off |-> 724,  bytes |-> <<3>>],
               [off |-> 732,  bytes |-> <<42, 1, 0, 0, 0, 0, 0, 0>>],
               [off |-> 744,  bytes |-> EncodeU32(2)],
               [off |-> 780,  bytes |-> <<97, 98>>],
               [off |-> 908,  bytes |-> EncodeU32(start)],
               [off |-> 912,  bytes |-> EncodeU32(25)],
               [off |-> 916,  bytes |-> EncodeU32(9000)],
               [off |-> 968,  bytes |-> <<114, 98>>],
               [off |-> 1096, bytes |-> <<114, 98>>] >>]

Vehicles == {"va", "vb", "vc", "vx"}

Ids == {1, 2}

Win == <<"w","i","n","6","4">>

Switch == <<"s","w","i","t","c","h">>

Ussr == <<"c","o","u","n","t","r","y","_","u","s","s","r">>

\* the stat rows: a userId, with or without a score
RowPool ==
  {[has |-> {"userId"}, val |-> [ZeroRow EXCEPT !.userId = JInt(i)]] : i \in Ids}
  \cup
  {[has |-> {"userId", "score"}, val |-> [ZeroRow EXCEPT !.userId = JInt(i), !.score = 7]] : i \in Ids}

\* the entries of playersInfo over the given ids, platforms and lineups
InfoPool(ids, platforms, lineups) ==
  {[has |-> {"id", "platform", "country", "crafts"},
    val |-> [id |-> JInt(i), platform |-> p, country |-> Ussr, crafts |-> l]] :
      i \in ids, p \in platforms, l \in lineups}

\* authorUserId missing
Missing == [t |-> "missing", v |-> 0]

\* the JSON objects the executable prints
Blob(rows, infos, author) ==
  [has |-> {"status", "timePlayed", "player", "uiScriptsData"}
           \cup (IF author = Missing THEN {} ELSE {"authorUserId"}),
   val |-> [status |-> "success", timePlayed |-> 125, player |-> rows,
            uiScriptsData |-> [has |-> {"playersInfo"}, val |-> [playersInfo |-> infos]],
            authorUserId |-> IF author = Missing THEN EmptyStr ELSE author]]

Blobs(rowSeqs, infoSeqs, authors) ==
  {Blob(r, i, a) : r \in rowSeqs, i \in infoSeqs, a \in authors}

OkExes(blobs) == {[kind |-> "ok", out |-> b] : b \in blobs}

FailExes == {[kind |-> k, out |-> EmptyDict] : k \in {"timeout", "nonzero", "badjson"}}

\* the arguments and locals of a parse_replay_data call on `data` that has not begun
NewCall(data, e) ==
  [replay_data |-> data, exe |-> e, replay |-> NewReplay, rez_offset |-> 0,
   results |-> EmptyDict, row |-> 0, warnings |-> <<>>, caught |-> "none",
   exe_calls |-> 0, pc |-> "magic", error |-> "none", raised_in |-> "none"]

\* no second call
NoCall ==
  [NewCall([len |-> 0, segs |-> <<>>], [kind |-> "ok", out |-> EmptyDict])
     EXCEPT !.pc = "idle"]

\* a path: does the file exist, its suffix, and its stem as the number of leading "#"
\* and the time its remaining text reads as in "%Y.%m.%d %H.%M.%S" (NoTime when it
\* does not read as one)
Path(exists, suffix, hashes, stamp) ==
  [dir |-> "raw", name |-> <<NoTime, <<>>>>,
   exists |-> exists, suffix |-> suffix, hashes |-> hashes, stamp |-> stamp]

NoPath == Path(FALSE, <<>>, 0, NoTime)

\* no directory given
NoDirectory == [exists |-> FALSE, is_dir |-> FALSE, files |-> <<>>]

\* ReplayManagerService after __init__, with the replays load_processed_replays found
InitManager(paths, overwrites, caches) ==
  /\ replay_file_path \in paths
  /\ allow_overwrite \in overwrites
  /\ loaded_replays \in caches
  /\ loaded_session_ids = {e.session_id : e \in loaded_replays}
  /\ processed_files = {SaveToFile(e.replay) : e \in loaded_replays}
  /\ ingested = "none"
  /\ store_out = NoPath
  /\ replay_directory = NoDirectory
  /\ replay_files = <<>>
  /\ replay_map = <<>>
  /\ stored = 0

\* one call only
InitSingle ==
  /\ call = 1
  /\ suspended = NoCall
  /\ switches = 0

InitCall(files, exes) ==
  /\ replay_data \in files
  /\ exe \in exes
  /\ replay = NewReplay
  /\ rez_offset = 0
  /\ results = EmptyDict
  /\ row = 0
  /\ warnings = <<>>
  /\ caught = "none"
  /\ exe_calls = 0
  /\ pc = "magic"
  /\ error = "none"
  /\ raised_in = "none"
  /\ tier_args = [call |-> "none", delta |-> 0, player |-> 0, replay |-> 0]
  /\ tier_out = "none"
  /\ service_vehicle_data = VehicleData
  /\ InitManager({NoPath}, {FALSE}, {{}})

InitParse(files, exes) == InitCall(files, exes) /\ InitSingle

\* Files of every length around each read of the header, with a good or a bad magic,
\* against an executable that fails or prints a small object
FileLengths ==
  {0, 3, 4, 7, 8, 400, 687, 688, 689, 724, 725, 739, 740, 747, 748, 911, 912, 915,
   916, 919, 920, 1000, 1223, 1224, 1300}

Magics == {<<229, 172, 0, 16>>, <<229, 172, 0, 17>>, <<0, 0, 0, 0>>}

Files ==
  {ReplayFile(m, d, z, 15, n) :
     m \in Magics, d \in {0, 3}, z \in {0, 920, 1224}, n \in FileLengths}

Init ==
  InitParse(Files,
            FailExes \cup {[kind |-> "ok", out |-> EmptyDict]} \cup
            OkExes(Blobs(SeqsUpTo(RowPool, 1),
                         SeqsUpTo(InfoPool(Ids, {Win}, {<<"va">>}), 1),
                         {JStr(1), JInt(1), Missing})))

Spec == Init /\ [][Next]_vars

\* One complete file against every object of up to MaxRows stat rows and MaxInfos
\* identity entries: for id 1 a sound entry, one whose vehicle is unknown and one whose
\* platform is unknown, for id 2 a sound entry
JoinInfoPool ==
  InfoPool({1}, {Win}, {<<"va">>, <<"vx">>}) \cup InfoPool({1}, {Switch}, {<<"va">>})
  \cup InfoPool({2}, {Win}, {<<"va">>})

InitJoin ==
  InitParse({ReplayFile(<<229, 172, 0, 16>>, 0, 1224, 15, 1300)},
            OkExes(Blobs(SeqsUpTo(RowPool, MaxRows),
                         SeqsUpTo(JoinInfoPool, MaxInfos),
                         {JStr(i) : i \in Ids} \cup {Missing})))

SpecJoin == InitJoin /\ [][Next]_vars

\* Complete files of every difficulty and start time against one participant with
\* every lineup of up to MaxLineup vehicles
InitRating ==
  InitParse({ReplayFile(<<229, 172, 0, 16>>, d, 1224, t, 1300) :
               d \in {0, 5, 10, 3}, t \in {5, 10, 15, 20, 25}},
            OkExes(Blobs({<<[has |-> {"userId", "score"}, val |-> [ZeroRow EXCEPT !.userId = JInt(1), !.score = 7]]>>},
                         {<<i>> : i \in InfoPool(Ids, {Win}, SeqsUpTo(Vehicles, MaxLineup))},
                         {JStr(1)})))

SpecRating == InitRating /\ [][Next]_vars

\* One participant of a realistic battle against every catalog whose snapshots were
\* released at some of the datetimes Releases, for battles that started before, at,
\* between and after them.  The snapshot released at r rates "va" 100 + r and "vb"
\* 300 - r, holds "vb" from release 20 on, and has "va" premium at release 20 only.
Releases == {10, 20, 30}

MaxTime == 35

Snapshot(r) ==
  LET va == "va" :> [arcade |-> 100 + r, realistic |-> 100 + r, simulation |-> 100 + r,
                     is_premium |-> (r = 20)]
      vb == "vb" :> [arcade |-> 300 - r, realistic |-> 300 - r, simulation |-> 300 - r,
                     is_premium |-> FALSE]
  IN  IF r >= 20 THEN va @@ vb ELSE va

Catalogs == {[r \in rs |-> Snapshot(r)] : rs \in (SUBSET Releases) \ {{}}}

InitCatalog ==
  /\ service_vehicle_data \in Catalogs
  /\ replay_data \in {ReplayFile(<<229, 172, 0, 16>>, 5, 1224, t, 1300) :
                        t \in {5 * k : k \in 1..(MaxTime \div 5)}}
  /\ exe \in OkExes(Blobs({<<[has |-> {"userId", "score"},
                              val |-> [ZeroRow EXCEPT !.userId = JInt(1), !.score = 7]]>>},
                          {<<i>> : i \in InfoPool({1}, {Win},
                                                  {<<"va">>, <<"vb">>, <<"va", "vb">>})},
                          {JStr(1)}))
  /\ replay = NewReplay
  /\ rez_offset = 0
  /\ results = EmptyDict
  /\ row = 0
  /\ warnings = <<>>
  /\ caught = "none"
  /\ exe_calls = 0
  /\ pc = "magic"
  /\ error = "none"
  /\ raised_in = "none"
  /\ tier_args = [call |-> "none", delta |-> 0, player |-> 0, replay |-> 0]
  /\ tier_out = "none"
  /\ InitManager({NoPath}, {FALSE}, {{}})
  /\ InitSingle

SpecCatalog == InitCatalog /\ [][Next]_vars

\* The classifier on every delta up to MaxDelta thousandths either way, and on ratings
\* that far apart
InitTier ==
  /\ tier_args \in
       {[call |-> "from_delta", delta |-> d, player |-> 0, replay |-> 0] :
          d \in (0 - MaxDelta)..MaxDelta}
       \cup
       {[call |-> "player", delta |-> 0, player |-> p, replay |-> m] :
          p \in {1000, 2000, 2005}, m \in 1000..(1000 + MaxDelta)}
  /\ tier_out = "none"
  /\ service_vehicle_data = VehicleData
  /\ replay_data = [len |-> 0, segs |-> <<>>]
  /\ exe = [kind |-> "ok", out |-> EmptyDict]
  /\ replay = NewReplay
  /\ rez_offset = 0
  /\ results = EmptyDict
  /\ row = 0
  /\ warnings = <<>>
  /\ caught = "none"
  /\ exe_calls = 0
  /\ pc = "idle"
  /\ error = "none"
  /\ raised_in = "none"
  /\ InitManager({NoPath}, {FALSE}, {{}})
  /\ InitSingle

SpecTier == InitTier /\ [][NextTier]_vars

\* Complete files that differ in their header: every difficulty byte; files without a
\* single null byte; a level settings region that holds every text of up to MaxText
\* bytes out of a letter, a space and a null; a level region that holds every
\* concatenation of up to MaxTokens of "levels/", ".bin" and a letter
MaxText == 3

MaxTokens == 3

\* `file` with the bytes at offset `off` replaced
WithField(file, off, bytes) ==
  [file EXCEPT !.segs = [k \in DOMAIN file.segs |->
                           IF file.segs[k].off = off
                           THEN [off |-> off, bytes |-> bytes]
                           ELSE file.segs[k]]]

\* a file of exactly 1224 bytes, none of them null
DenseFile(period) ==
  [len  |-> 1224,
   segs |-> << [off |-> 0,
                bytes |-> [k \in 1..1224 |->
                             IF k <= 4 THEN <<229, 172, 0, 16>>[k]
                             ELSE 97 + ((k - 1) % period)]] >>]

RECURSIVE Flatten(_)
Flatten(ss) == IF Len(ss) = 0 THEN <<>> ELSE ss[1] \o Flatten(Tail(ss))

LevelTokens == {<<108, 101, 118, 101, 108, 115, 47>>, <<46, 98, 105, 110>>, <<97>>}

HeaderFiles ==
  LET base == ReplayFile(<<229, 172, 0, 16>>, 0, 1224, 15, 1300)
  IN  {ReplayFile(<<229, 172, 0, 16>>, d, 1224, 15, 1300) : d \in 0..255}
      \cup {DenseFile(25), DenseFile(26)}
      \cup {WithField(base, 136, t) : t \in SeqsUpTo({97, 32, 0}, MaxText)}
      \cup {WithField(base, 8, Flatten(ts)) : ts \in SeqsUpTo(LevelTokens, MaxTokens)}
      \cup {WithField(base, 524, <<200, 97>>)}

InitHeader ==
  InitParse(HeaderFiles,
            OkExes(Blobs({<<[has |-> {"userId", "score"}, val |-> [ZeroRow EXCEPT !.userId = JInt(1), !.score = 7]]>>},
                         {<<i>> : i \in InfoPool({1}, {Win}, {<<"va">>})},
                         {JStr(1)})))

SpecHeader == InitHeader /\ [][Next]_vars

\* One complete file against one participant whose platform is every concatenation
\* of up to MaxNameTokens platform tokens, or whose country is every concatenation of
\* up to MaxNameTokens country tokens or a member's name
MaxNameTokens == 2

PlatformTokens ==
  { <<"X","b","o","x">>, <<"P","S">>, <<"W","i","n">>, <<"m","a","c">>,
    <<"l","i","n","u","x">>, <<"P","C">>, <<"p">>, <<"s">> }

CountryTokens ==
  { <<"U","K">>, <<"u","s","a">>, <<"B","r","i","t","a","i","n">>, <<"u","s","s","r">>,
    <<"J","a","p","a","n">>, <<"c","o","u","n","t","r","y","_">>, <<"x">>, <<" ">> }

PlayerInfos ==
  {[has |-> {"id", "platform", "country", "crafts"},
    val |-> [id |-> JInt(1), platform |-> Flatten(ts), country |-> Ussr, crafts |-> <<"va">>]] :
      ts \in SeqsUpTo(PlatformTokens, MaxNameTokens)}
  \cup
  {[has |-> {"id", "platform", "country", "crafts"},
    val |-> [id |-> JInt(1), platform |-> Win, country |-> c, crafts |-> <<"va">>]] :
      c \in {Flatten(ts) : ts \in SeqsUpTo(CountryTokens, MaxNameTokens)}
             \cup {Country[k].value : k \in 1..Len(Country)}}
  \cup
  {[has |-> {"id", "crafts"},
    val |-> [id |-> JInt(1), platform |-> <<>>, country |-> <<>>, crafts |-> <<"va">>]]}

InitPlayer ==
  InitParse({ReplayFile(<<229, 172, 0, 16>>, 0, 1224, 15, 1300)},
            OkExes(Blobs({<<[has |-> {"userId", "score"}, val |-> [ZeroRow EXCEPT !.userId = JInt(1), !.score = 7]]>>},
                         {<<i>> : i \in PlayerInfos},
                         {JStr(1)})))

SpecPlayer == InitPlayer /\ [][Next]_vars

\* One complete file against one stat row in which every counter key is present, only
\* one is, only one is missing, or none is; the k-th key holds k, or -k
CounterKeys ==
  <<"kills", "groundKills", "navalKills", "teamKills", "aiKills", "aiGroundKills",
    "aiNavalKills", "assists", "deaths", "captureZone", "damageZone", "score",
    "awardDamage", "missileEvades">>

CounterRow(has, sign) ==
  LET V(k) == IF CounterKeys[k] \in has THEN sign * k ELSE 0
  IN  [has |-> {"userId"} \cup has,
       val |-> [userId |-> JInt(1), kills |-> V(1), groundKills |-> V(2),
                navalKills |-> V(3), teamKills |-> V(4), aiKills |-> V(5),
                aiGroundKills |-> V(6), aiNavalKills |-> V(7), assists |-> V(8),
                deaths |-> V(9), captureZone |-> V(10), damageZone |-> V(11),
                score |-> V(12), awardDamage |-> V(13), missileEvades |-> V(14)]]

CounterRows ==
  LET all == {CounterKeys[k] : k \in 1..14}
  IN  {CounterRow(has, sign) :
         has \in {all, {}} \cup {{key} : key \in all} \cup {all \ {key} : key \in all},
         sign \in {1, -1}}

InitCounters ==
  InitParse({ReplayFile(<<229, 172, 0, 16>>, 0, 1224, 15, 1300)},
            OkExes(Blobs({<<r>> : r \in CounterRows},
                         {<<i>> : i \in InfoPool({1}, {Win}, {<<"va">>})},
                         {JStr(1)})))

SpecCounters == InitCounters /\ [][Next]_vars

\* start_collection on one replay file: a file that decodes or one with a bad magic, an
\* executable that answers or times out, a path that exists or not, with one of three
\* suffixes and a stem of up to MaxHashes "#" before a time or before other text, with
\* overwriting on or off, and a cache that is empty or holds the file's session id
MaxHashes == 2

OldReplay == [NewReplay EXCEPT !.session_id = <<"1","2","a">>, !.start_time = 5]

InitFile ==
  /\ replay_data \in {ReplayFile(m, 0, 1224, 15, 1300) :
                        m \in {<<229, 172, 0, 16>>, <<0, 0, 0, 0>>}}
  /\ exe \in OkExes(Blobs({<<[has |-> {"userId", "score"}, val |-> [ZeroRow EXCEPT !.userId = JInt(1), !.score = 7]]>>},
                          {<<i>> : i \in InfoPool({1}, {Win}, {<<"va">>})},
                          {JStr(1)}))
             \cup {[kind |-> "timeout", out |-> EmptyDict]}
  /\ replay = NewReplay
  /\ rez_offset = 0
  /\ results = EmptyDict
  /\ row = 0
  /\ warnings = <<>>
  /\ caught = "none"
  /\ exe_calls = 0
  /\ pc = "ingest"
  /\ error = "none"
  /\ raised_in = "none"
  /\ tier_args = [call |-> "none", delta |-> 0, player |-> 0, replay |-> 0]
  /\ tier_out = "none"
  /\ service_vehicle_data = VehicleData
  /\ InitManager({Path(e, x, h, t) :
                    e \in BOOLEAN,
                    x \in {<<".","w","r","p","l">>, <<".","W","R","P","L">>,
                           <<".","j","s","o","n">>},
                    h \in 0..MaxHashes,
                    t \in {NoTime, 99}},
                 BOOLEAN,
                 {{}, {[session_id |-> <<"1","2","a">>,
                        path |-> ProcessedPath(OldReplay),
                        replay |-> OldReplay]}})
  /\ InitSingle

SpecFile == InitFile /\ [][NextFile]_vars

\* start_collection on a directory of up to MaxFiles replay files (or on no directory,
\* or on a file): files of two session ids and two start times, one with a bad magic,
\* one whose name is no timestamp, one removed after the directory was listed
MaxFiles == 3

SessionFile(id_byte, start) ==
  WithField(ReplayFile(<<229, 172, 0, 16>>, 0, 1224, start, 1300), 732,
            <<id_byte, 1, 0, 0, 0, 0, 0, 0>>)

DirectoryFiles ==
  LET ok   == [kind |-> "ok",
               out  |-> Blob(<<[has |-> {"userId", "score"},
                                val |-> [ZeroRow EXCEPT !.userId = JInt(1), !.score = 7]]>>,
                             <<CHOOSE i \in InfoPool({1}, {Win}, {<<"va">>}) : TRUE>>,
                             JStr(1))]
      wrpl == <<".","w","r","p","l">>
  IN  {[data |-> SessionFile(42, 15), exe |-> ok, path |-> Path(TRUE, wrpl, 0, 99)],
       [data |-> SessionFile(42, 25), exe |-> ok, path |-> Path(TRUE, wrpl, 1, 98)],
       [data |-> SessionFile(43, 15), exe |-> ok, path |-> Path(TRUE, wrpl, 0, 97)],
       [data |-> ReplayFile(<<0, 0, 0, 0>>, 0, 1224, 15, 1300), exe |-> ok,
        path |-> Path(TRUE, wrpl, 0, 96)],
       [data |-> SessionFile(43, 25), exe |-> ok, path |-> Path(TRUE, wrpl, 0, NoTime)],
       [data |-> SessionFile(42, 15), exe |-> ok, path |-> Path(FALSE, wrpl, 0, 95)]}

InitDirectory ==
  /\ replay_directory \in
       {[exists |-> TRUE, is_dir |-> TRUE, files |-> fs] :
          fs \in SeqsUpTo(DirectoryFiles, MaxFiles)}
       \cup {[exists |-> FALSE, is_dir |-> FALSE, files |-> <<>>],
             [exists |-> TRUE, is_dir |-> FALSE, files |-> <<>>]}
  /\ replay_files = <<>>
  /\ replay_map = <<>>
  /\ stored = 0
  /\ store_out = NoPath
  /\ replay_file_path = NoPath
  /\ allow_overwrite \in BOOLEAN
  /\ loaded_replays \in {{}, {[session_id |-> <<"1","2","a">>,
                              path |-> ProcessedPath(OldReplay),
                              replay |-> OldReplay]}}
  /\ loaded_session_ids = {e.session_id : e \in loaded_replays}
  /\ processed_files = {SaveToFile(e.replay) : e \in loaded_replays}
  /\ ingested = "none"
  /\ replay_data = [len |-> 0, segs |-> <<>>]
  /\ exe = [kind |-> "ok", out |-> EmptyDict]
  /\ replay = NewReplay
  /\ rez_offset = 0
  /\ results = EmptyDict
  /\ row = 0
  /\ warnings = <<>>
  /\ caught = "none"
  /\ exe_calls = 0
  /\ pc = "directory"
  /\ error = "none"
  /\ raised_in = "none"
  /\ tier_args = [call |-> "none", delta |-> 0, player |-> 0, replay |-> 0]
  /\ tier_out = "none"
  /\ service_vehicle_data = VehicleData
  /\ InitSingle

SpecDirectory == InitDirectory /\ [][NextDirectory]_vars

\* Two calls at once, each on its own bytes: two complete files, a file cut in the
\* header, a file with a bad magic; against an executable that answers
\* with a participant that can be built or with one that cannot, or times out
PairFiles ==
  { ReplayFile(<<229, 172, 0, 16>>, 0, 1224, 15, 1300),
    ReplayFile(<<229, 172, 0, 16>>, 5, 1224, 25, 1300),
    ReplayFile(<<229, 172, 0, 16>>, 0, 1224, 15, 800),
    ReplayFile(<<229, 172, 0, 17>>, 0, 1224, 15, 1300) }

PairExes ==
  OkExes(Blobs({<<[has |-> {"userId", "score"}, val |-> [ZeroRow EXCEPT !.userId = JInt(1), !.score = 7]],
                  [has |-> {"userId"}, val |-> [ZeroRow EXCEPT !.userId = JInt(2)]]>>},
               {<<i>> : i \in InfoPool({1}, {Win, Switch}, {<<"va", "vb">>})},
               {JStr(1)}))
  \cup {[kind |-> "timeout", out |-> EmptyDict]}

InitPair ==
  /\ InitCall(PairFiles, PairExes)
  /\ call = 1
  /\ suspended \in {NewCall(d, e) : d \in PairFiles, e \in PairExes}
  /\ switches = 0

SpecPair == InitPair /\ [][NextPair]_vars

(***************************************************************************)
(* Properties                                                              *)
(***************************************************************************)
\* the file starts with the signature E5 AC 00 10
HasSignature == Slice(replay_data, 0, 4) = <<229, 172, 0, 16>>

Done == pc \in {"returned", "raised"}

AuthorId == Get(results, "authorUserId", EmptyStr)

\* the identity entries a stat row joins: those whose id is the row's userId
JoinedInfos(player_data) ==
  {k \in 1..Len(PlayersInfo) :
     Str(Get(PlayersInfo[k], "id", EmptyStr)) = Str(Get(player_data, "userId", EmptyStr))}

\* C1: an input of at least 4 bytes that does not start with the signature fails at
\* once with the invalid-format ValueError: no header field is decoded, the executable
\* is never run and no Replay is returned.
C1_BadMagicRejected ==
  (replay_data.len >= 4 /\ ~HasSignature /\ pc # "magic") =>
     /\ pc = "raised"
     /\ error = "ValueError"
     /\ raised_in = "magic"
     /\ replay = NewReplay
     /\ rez_offset = 0
     /\ exe_calls = 0

C1_Witness ==
  /\ replay_data.len >= 1224
  /\ Slice(replay_data, 0, 4) = <<229, 172, 0, 17>>
  /\ pc = "raised"
  /\ error = "ValueError"

\* C2: an input that starts with the signature and is shorter than the 1224-byte
\* header fails while the header is decoded, so the decode never goes past the header.
C2_TruncatedRejected ==
  (HasSignature /\ replay_data.len < 1224 /\ pc \notin {"magic", "header"}) =>
     /\ pc = "raised"
     /\ raised_in = "header"

\* C3: a joined participant whose equipment resolves to no catalog entry is dropped and
\* the decode goes on: the decode never ends with the error of the rating computation
\* on such a participant.
C3_ZeroEquipmentDropsOnlyParticipant ==
  ~ /\ pc = "raised"
    /\ raised_in = "_get_transformed_player_battle_rating"
    /\ replay.battle_type \in {"arcade", "realistic", "simulation"}
    /\ \E k \in JoinedInfos(PlayersArray[row]) :
         \A j \in 1..Len(PlayersInfo[k].val.crafts) :
           GetVehiclesByInternalName(PlayersInfo[k].val.crafts[j], replay.start_time) = {}

\* C4: a joined participant whose platform string matches no platform is dropped and
\* the decode goes on: the decode never ends with the unknown-platform error.
C4_UnknownPlatformDropsOnlyParticipant ==
  ~ /\ pc = "raised"
    /\ raised_in = "platform"
    /\ \E k \in JoinedInfos(PlayersArray[row]) :
         PlatformTypeOf(PlayersInfo[k].val.platform) = "raise"

\* C5: when the executable is run and fails (timeout, non-zero exit, output that is no
\* JSON) the decode ends by returning a Replay with the header fields, no player,
\* status "left" and time played 0.
C5_DecoderFailureTolerated ==
  (exe_calls > 0 /\ exe.kind # "ok" /\ Done) =>
     /\ pc = "returned"
     /\ replay.players = <<>>
     /\ replay.status = "left"
     /\ replay.time_played = 0

\* C6: a Replay is returned only if some player's user id equals the author id of the
\* results; a decode that gets to the author lookup without such a player (so every
\* decode without players, as with blob offset 0) ends with the StopIteration of the
\* lookup, and then no Replay is returned and no author is set.
C6_AuthorRequired ==
  LET matches == {k \in 1..Len(replay.players) : replay.players[k].user_id = AuthorId}
  IN  /\ pc = "returned" => matches # {}
      /\ (Done /\ matches = {}) => pc = "raised" /\ replay.author = NewPlayer
      /\ (Done /\ matches = {} /\ raised_in \notin {"magic", "header", "platform",
              "get_country_by_name", "_get_transformed_player_battle_rating"}) =>
           error = "StopIteration" /\ raised_in = "author"
      /\ (Done /\ FailStep(replay_data) = 18 /\ HasSignature /\ rez_offset = 0) =>
           error = "StopIteration" /\ replay.players = <<>>

C6_Witness ==
  /\ pc = "raised"
  /\ error = "StopIteration"
  /\ Len(replay.players) > 0
  /\ "authorUserId" \in results.has

\* C7: in a returned Replay the author is the first player, in sequence order, whose
\* user id equals the authorUserId of the results.
C7_AuthorIsFirstMatch ==
  pc = "returned" =>
    \E k \in 1..Len(replay.players) :
      /\ replay.author = replay.players[k]
      /\ replay.players[k].user_id = AuthorId
      /\ \A j \in 1..(k - 1) : replay.players[j].user_id # AuthorId

C7_Witness ==
  /\ pc = "returned"
  /\ Len(replay.players) = 2
  /\ replay.players[1].user_id = AuthorId
  /\ replay.players[2].user_id = AuthorId
  /\ replay.players[1] # replay.players[2]

\* the stat rows among the first n that join an identity entry, in order, as
\* <<user id, score>> pairs
RECURSIVE JoinedRows(_)
JoinedRows(n) ==
  IF n = 0 THEN <<>>
  ELSE LET player_data == PlayersArray[n]
       IN  IF JoinedInfos(player_data) # {}
           THEN Append(JoinedRows(n - 1),
                       <<Str(Get(player_data, "userId", EmptyStr)), Get(player_data, "score", 0)>>)
           ELSE JoinedRows(n - 1)

\* the stat rows among the first n that join no identity entry, in order
RECURSIVE UnjoinedRows(_)
UnjoinedRows(n) ==
  IF n = 0 THEN <<>>
  ELSE LET player_data == PlayersArray[n]
       IN  IF JoinedInfos(player_data) = {}
           THEN Append(UnjoinedRows(n - 1), Str(Get(player_data, "userId", EmptyStr)))
           ELSE UnjoinedRows(n - 1)

\* C8: the players are, in stat-row order, one per stat row whose userId is the id of
\* an identity entry and none for the other rows, which are logged; a row that joins
\* no entry raises nothing, so the loop only ever fails on a row that joins one.
C8_JoinByUserId ==
  /\ pc \in {"players", "returned"} \/ (pc = "raised" /\ raised_in = "author") =>
       /\ [k \in 1..Len(replay.players) |->
             <<replay.players[k].user_id, replay.players[k].score>>] = JoinedRows(row - 1)
       /\ warnings = UnjoinedRows(row - 1)
  /\ pc = "returned" \/ (pc = "raised" /\ raised_in = "author") =>
       row = Len(PlayersArray) + 1
  /\ (pc = "raised" /\ raised_in \in {"platform", "get_country_by_name",
                                       "_get_transformed_player_battle_rating"}) =>
       JoinedInfos(PlayersArray[row]) # {}

C8_Witness ==
  /\ pc = "returned"
  /\ Len(PlayersArray) = 2
  /\ JoinedInfos(PlayersArray[1]) = {}
  /\ JoinedInfos(PlayersArray[2]) # {}
  /\ Len(replay.players) = 1
  /\ Len(warnings) = 1

\* C9: get_battle_rating_tier_from_delta follows the table: delta >= 0 downtier,
\* -0.4 < delta < 0 partial downtier, -0.6 <= delta <= -0.4 balanced,
\* -1.0 < delta < -0.6 partial uptier, delta <= -1.0 uptier; get_battle_rating_tier
\* applies it to the difference of the ratings rounded to hundredths.
C9_TierTable ==
  LET Table(d, t) ==
        /\ t = "downtier" <=> d >= 0
        /\ t = "partial_downtier" <=> (-400 < d /\ d < 0)
        /\ t = "balanced" <=> (-600 <= d /\ d <= -400)
        /\ t = "partial_uptier" <=> (-1000 < d /\ d < -600)
        /\ t = "uptier" <=> d <= -1000
      diff == tier_args.player - tier_args.replay
  IN  /\ (tier_out # "none" /\ tier_args.call = "from_delta") =>
           Table(tier_args.delta, tier_out)
      /\ (tier_out # "none" /\ tier_args.call = "player") =>
           \E h \in ((diff - 5) \div 10)..((diff + 5) \div 10 + 1) :
             /\ 2 * (10 * h - diff) <= 10
             /\ 2 * (diff - 10 * h) <= 10
             /\ Table(10 * h, tier_out)

C9_Witness ==
  /\ tier_args.call = "from_delta"
  /\ tier_args.delta = -400
  /\ tier_out = "balanced"

\* the sum of the ratings r[k] over the indices k of K
RECURSIVE SumOver(_, _)
SumOver(r, K) ==
  IF K = {} THEN 0
  ELSE LET k == CHOOSE k \in K : TRUE IN r[k] + SumOver(r, K \ {k})

\* C10: a built player's battle_rating, min_battle_rating and mean_battle_rating are
\* the maximum, the minimum and the mean to the nearest hundredth of the ratings, in
\* the replay's mode and in the catalog as of its start time, of the ids of its lineup
\* that the catalog knows, each occurrence counted.
C10_RatingsFromLineup ==
  \A i \in 1..Len(replay.players) :
    LET player == replay.players[i]
        K == {k \in 1..Len(player.lineup) :
                GetVehiclesByInternalName(player.lineup[k], replay.start_time) # {}}
        r == [k \in K |->
                LET v == CHOOSE v \in GetVehiclesByInternalName(player.lineup[k],
                                                               replay.start_time) : TRUE
                IN  CASE replay.battle_type = "arcade" -> v.arcade
                      [] replay.battle_type = "realistic" -> v.realistic
                      [] replay.battle_type = "simulation" -> v.simulation]
        n == Cardinality(K)
        d == n * player.mean_battle_rating - SumOver(r, K)
    IN  /\ K # {}
        /\ \E k \in K : player.battle_rating = r[k]
        /\ \A k \in K : r[k] <= player.battle_rating
        /\ \E k \in K : player.min_battle_rating = r[k]
        /\ \A k \in K : r[k] >= player.min_battle_rating
        /\ 2 * d <= n
        /\ 2 * d >= 0 - n

C10_Witness ==
  /\ pc = "returned"
  /\ Len(replay.players) = 1
  /\ replay.players[1].lineup = <<"va", "vx", "vb">>
  /\ replay.players[1].min_battle_rating < replay.players[1].mean_battle_rating
  /\ replay.players[1].mean_battle_rating < replay.players[1].battle_rating

\* C11: the decoded difficulty depends only on the low 4 bits of the byte at offset
\* 688: 0 arcade, 5 realistic, 10 simulation, every other nibble unknown; and whatever
\* that byte is, the header decode of a file that holds the whole header does not fail.
C11_DifficultyLowNibble ==
  LET b      == ByteAt(replay_data, 688)
      nibble == b - 16 * (b \div 16)
  IN  /\ (HasSignature /\ replay_data.len > 688 /\ pc \notin {"magic", "header"}) =>
           replay.battle_type = CASE nibble = 0  -> "arcade"
                                  [] nibble = 5  -> "realistic"
                                  [] nibble = 10 -> "simulation"
                                  [] OTHER       -> "unknown"
      /\ (HasSignature /\ replay_data.len >= 1224) => raised_in # "header"

C11_Witness ==
  /\ ByteAt(replay_data, 688) = 165
  /\ replay.battle_type = "realistic"
  /\ pc = "unpack"

\* the 4 bytes at offset off as a little-endian integer
U32At(off) ==
  ByteAt(replay_data, off) + 256 * ByteAt(replay_data, off + 1)
    + 65536 * ByteAt(replay_data, off + 2) + 16777216 * ByteAt(replay_data, off + 3)

\* the text of the region of `width` bytes at offset off, up to its first null byte
RegionText(off, width) ==
  LET region == Slice(replay_data, off, off + width)
      nulls  == {k \in 1..Len(region) : region[k] = 0}
      end    == IF nulls = {} THEN Len(region)
                ELSE (CHOOSE k \in nulls : \A j \in nulls : k <= j) - 1
  IN  Decode(SubSeq(region, 1, end))

\* C12: every header field is read at the byte offset and with the width of the layout
\* table (version 4, map id 8, map settings 136, legacy field 396, environment 524,
\* visibility 652, blob offset 684, difficulty 688, session type 724, session id 732,
\* count field 744, label 780, start time 908, time limit 912, score limit 916, battle
\* class 968, kill-streak 1096), and the running offset after the last field is 1224.
C12_HeaderLayout ==
  /\ <<OffVersion, OffLevel, OffLevelSettings, OffBattleTypeAlt, OffEnvironment,
        OffVisibility, OffRez, OffDifficulty, OffSessionType, OffSessionId, OffSetSize,
        OffLocName, OffStartTime, OffTimeLimit, OffScoreLimit, OffBattleClass,
        OffBattleKillStreak, OffEnd>>
       = <<4, 8, 136, 396, 524, 652, 684, 688, 724, 732, 744, 780, 908, 912, 916, 968,
           1096, 1224>>
  /\ (HasSignature /\ replay_data.len >= 1224 /\ pc \notin {"magic", "header"}) =>
        /\ replay.version = U32At(4)
        /\ (/\ ~Contains(<<"l","e","v","e","l","s","/">>, RegionText(8, 128))
            /\ ~Contains(<<".","b","i","n">>, RegionText(8, 128)))
             => replay.level = RegionText(8, 128)
        /\ replay.level_settings = RegionText(136, 260)
        /\ replay.environment = RegionText(524, 128)
        /\ replay.visibility = RegionText(652, 32)
        /\ rez_offset = U32At(684)
        /\ replay.battle_type = BattleTypeOf(ByteAt(replay_data, 688))
        /\ replay.session_type = ByteAt(replay_data, 724)
        /\ replay.session_id = FormatHex([k \in 1..8 |-> ByteAt(replay_data, 731 + k)])
        /\ replay.loc_name = RegionText(780, 128)
        /\ replay.start_time = U32At(908)
        /\ replay.time_limit_minutes = U32At(912)
        /\ replay.score_limit = U32At(916)
        /\ replay.battle_class = RegionText(968, 128)
        /\ replay.battle_kill_streak = RegionText(1096, 128)

C12_Witness ==
  /\ replay_data.len = 1224
  /\ pc = "unpack"
  /\ Len(replay.level) = 128
  /\ Len(replay.level_settings) = 260
  /\ Len(replay.visibility) = 32
  /\ Len(replay.battle_kill_streak) = 128
  /\ replay.loc_name[1] = "f"

\* C13: when the blob offset of the header (offset 684) is 0 the executable is never
\* run and the results are the empty dict: the Replay has no player, status "left" and
\* time played 0.
C13_NoBlobNoDecoder ==
  (HasSignature /\ replay_data.len >= 688 /\ U32At(684) = 0 /\ pc \notin {"magic", "header"}) =>
     /\ exe_calls = 0
     /\ caught = "none"
     /\ results.has = {}
     /\ replay.players = <<>>
     /\ replay.status = "left"
     /\ replay.time_played = 0
     /\ warnings = <<>>

C13_Witness ==
  /\ HasSignature
  /\ replay_data.len >= 1224
  /\ U32At(684) = 0
  /\ exe.kind = "ok"
  /\ Len(exe.out.val.player) > 0
  /\ pc = "raised"
  /\ raised_in = "author"
  /\ exe_calls = 0
  /\ replay.status = "left"

\* the position of a step in the order magic, header, blob, participants, author
StepRank(p) ==
  CASE p = "magic"   -> 0
    [] p = "header"  -> 1
    [] p = "unpack"  -> 2
    [] p = "results" -> 3
    [] p = "players" -> 4
    [] OTHER         -> 5

\* the fields of a Replay that the header decode assigns
HeaderPart(r) ==
  <<r.version, r.level, r.level_settings, r.environment, r.visibility, r.battle_type,
    r.session_type, r.session_id, r.loc_name, r.start_time, r.time_limit_minutes,
    r.score_limit, r.battle_class, r.battle_kill_streak>>

\* C14: within one decode the steps go strictly forward in the order header, blob,
\* participants, author (only the participant loop repeats); the executable is run at
\* most once, after the whole header has been decoded and never again after it failed;
\* participants are built only once that call is over; the author is set last.
C14_StepOrder ==
  [][ /\ StepRank(pc') > StepRank(pc) \/ (pc = "players" /\ pc' = "players")
      /\ exe_calls' \in {exe_calls, exe_calls + 1}
      /\ exe_calls' <= 1
      /\ exe_calls' # exe_calls =>
            /\ pc = "unpack" /\ pc' = "results"
            /\ caught = "none"
            /\ replay_data.len >= 920
            /\ replay.battle_kill_streak = RegionText(1096, 128)
      /\ pc # "header" => HeaderPart(replay') = HeaderPart(replay) /\ rez_offset' = rez_offset
      /\ replay'.players # replay.players =>
            /\ pc = "players" /\ pc' = "players"
            /\ rez_offset > 0 /\ exe_calls = 1 /\ exe_calls' = 1
      /\ results' # results => pc = "unpack"
      /\ replay'.author # replay.author =>
            /\ pc = "players" /\ pc' = "returned"
            /\ replay'.players = replay.players
    ]_vars

C14_Witness ==
  /\ exe.kind = "timeout"
  /\ caught = "RuntimeError"
  /\ exe_calls = 1
  /\ pc = "raised"
  /\ raised_in = "author"

\* the identity entry of the only participant of a decode that has got to its row
TheInfo == PlayersInfo[1]

\* the participant has been handled: built, or the decode has failed on it
Handled == pc \in {"returned", "raised"} \/ (pc = "players" /\ row = 2)

\* C17: the platform category is XboxLive if the lower-cased platform string contains
\* "xbox", otherwise PSN if it contains "ps", otherwise PC if it contains "win", "mac",
\* "linux" or "pc"; a string that contains none of them raises the unknown-platform
\* error.
C17_PlatformInference ==
  Handled =>
    LET p    == Lower(Get(TheInfo, "platform", <<>>))
        Has(t) == Contains(t, p)
        want == IF Has(<<"x","b","o","x">>) THEN "xboxlive"
                ELSE IF Has(<<"p","s">>) THEN "psn"
                ELSE IF \E t \in {<<"w","i","n">>, <<"m","a","c">>, <<"l","i","n","u","x">>,
                                  <<"p","c">>} : Has(t) THEN "pc"
                ELSE "unknown platform"
    IN  IF want = "unknown platform"
        THEN pc = "raised" /\ error = "ValueError" /\ raised_in = "platform"
        ELSE /\ raised_in # "platform"
             /\ Len(replay.players) = 1 =>
                  /\ replay.players[1].platform_type = want
                  /\ replay.players[1].platform = Get(TheInfo, "platform", <<>>)

C17_Witness ==
  /\ pc = "returned"
  /\ TheInfo.val.platform = <<"P","C","X","b","o","x">>
  /\ replay.players[1].platform_type = "xboxlive"

\* C18: get_country_by_name gives the first member, in the order China, France,
\* Germany, Israel, Italy, Japan, Russia, Sweden, UK, USA, whose lower-cased value is
\* a substring of the trimmed, lower-cased name; when no member matches, "britain"
\* gives UK and "ussr" gives Russia; a name that matches nothing raises ValueError.
C18_CountryByName ==
  (Handled /\ raised_in # "platform") =>
    LET name0  == Get(TheInfo, "country", <<>>)
        blanks == {k \in 1..Len(name0) : name0[k] # " "}
        name   == Lower(IF blanks = {} THEN <<>>
                        ELSE SubSeq(name0, CHOOSE k \in blanks : \A j \in blanks : k <= j,
                                           CHOOSE k \in blanks : \A j \in blanks : k >= j))
        order  == << <<"CHINA", <<"c","h","i","n","a">> >>,
                     <<"FRANCE", <<"f","r","a","n","c","e">> >>,
                     <<"GERMANY", <<"g","e","r","m","a","n","y">> >>,
                     <<"ISRAEL", <<"i","s","r","a","e","l">> >>,
                     <<"ITALY", <<"i","t","a","l","y">> >>,
                     <<"JAPAN", <<"j","a","p","a","n">> >>,
                     <<"RUSSIA", <<"r","u","s","s","i","a">> >>,
                     <<"SWEDEN", <<"s","w","e","d","e","n">> >>,
                     <<"UK", <<"u","k">> >>,
                     <<"USA", <<"u","s","a">> >> >>
        match  == {k \in 1..10 : Contains(order[k][2], name)}
        want   == IF match # {}
                  THEN order[CHOOSE k \in match : \A j \in match : k <= j][1]
                  ELSE IF Contains(<<"b","r","i","t","a","i","n">>, name) THEN "UK"
                  ELSE IF Contains(<<"u","s","s","r">>, name) THEN "RUSSIA"
                  ELSE "no country"
    IN  IF want = "no country"
        THEN pc = "raised" /\ error = "ValueError" /\ raised_in = "get_country_by_name"
        ELSE /\ raised_in # "get_country_by_name"
             /\ Len(replay.players) = 1 => replay.players[1].country = want

C18_Witness ==
  /\ pc = "returned"
  /\ TheInfo.val.country = <<"u","s","a","U","K">>
  /\ replay.players[1].country = "UK"

\* t without its leading and trailing blanks
Trimmed(t) ==
  LET solid == {k \in 1..Len(t) : t[k] # " "}
  IN  IF solid = {} THEN <<>>
      ELSE SubSeq(t, CHOOSE k \in solid : \A j \in solid : k <= j,
                     CHOOSE k \in solid : \A j \in solid : k >= j)

\* C19: every decoded header string field is the text of its fixed-width region up to
\* the first null byte, with leading and trailing whitespace trimmed; the bytes after
\* the first null byte do not affect it.
C19_StringsTrimmed ==
  (HasSignature /\ replay_data.len >= 1224 /\ pc \notin {"magic", "header"}) =>
     /\ replay.level_settings = Trimmed(RegionText(136, 260))
     /\ replay.environment = Trimmed(RegionText(524, 128))
     /\ replay.visibility = Trimmed(RegionText(652, 32))
     /\ replay.loc_name = Trimmed(RegionText(780, 128))
     /\ replay.battle_class = Trimmed(RegionText(968, 128))
     /\ replay.battle_kill_streak = Trimmed(RegionText(1096, 128))

\* t without a leading "levels/" and, then, without a trailing ".bin"
WithoutPathAndExtension(t) ==
  LET path == <<"l","e","v","e","l","s","/">>
      ext  == <<".","b","i","n">>
      a    == IF Len(t) >= 7 /\ SubSeq(t, 1, 7) = path THEN SubSeq(t, 8, Len(t)) ELSE t
  IN  IF Len(a) >= 4 /\ SubSeq(a, Len(a) - 3, Len(a)) = ext
      THEN SubSeq(a, 1, Len(a) - 4) ELSE a

\* C20: the decoded map id is the raw map-id string (the region at offset 8 up to its
\* first null byte) with only its leading "levels/" and its trailing ".bin" removed;
\* occurrences of those substrings elsewhere in the string are kept.
C20_LevelPrefixSuffix ==
  (HasSignature /\ replay_data.len >= 1224 /\ pc \notin {"magic", "header"}) =>
     replay.level = WithoutPathAndExtension(RegionText(8, 128))

\* parse_replay_data has returned a Replay
HasReturned ==
  \/ pc \in {"returned", "file_returned"}
  \/ pc \in {"file_raised", "ingested", "stored"} /\ raised_in \in {"strptime"}
  \/ pc \in {"ingested", "stored"} /\ ingested = "replay"

\* C16 as stated: once parse_replay_data has returned a Replay, no later operation of
\* parse_replay_file, ingest_raw_replay_file or store_replay changes any of its fields
\* or any field of its players.
C16_RecordFrozen == [][HasReturned => replay' = replay]_vars

\* C16 as amended: once parse_replay_data has returned a Replay, the only change to it
\* is that parse_replay_file sets its end_time, once, from the file name, right after
\* the return; ingest_raw_replay_file and store_replay change no field, and cache and
\* write the Replay as it is.
C16_OnlyEndTimeSet ==
  [][ HasReturned =>
        /\ replay' = [replay EXCEPT !.end_time = replay'.end_time]
        /\ replay'.end_time # replay.end_time =>
              /\ pc = "returned" /\ pc' = "file_returned"
              /\ replay.end_time = NoTime
              /\ replay'.end_time = replay_file_path.stamp
        /\ \A e \in loaded_replays' \ loaded_replays : e.replay = replay
        /\ \A f \in processed_files' \ processed_files : f.replay = replay
    ]_vars

C16_Witness ==
  /\ pc = "stored"
  /\ replay.end_time = 99
  /\ replay.author = replay.players[1]
  /\ \E f \in processed_files : f.replay = replay

\* what a call has come to: returned or raised, with what, and the Replay it built
Outcome(c) ==
  [pc |-> c.pc, error |-> c.error, raised_in |-> c.raised_in, replay |-> c.replay,
   warnings |-> c.warnings]

\* the loop of _parse_results from stat row k on, then the author, run without
\* interruption: the outcomes it can come to
RECURSIVE RowsAlone(_, _, _, _)
RowsAlone(r, res, k, warn) ==
  LET rows  == Get(res, "player", <<>>)
      infos == Get(Get(res, "uiScriptsData", EmptyUi), "playersInfo", EmptyInfos)
  IN  IF k > Len(rows)
      THEN LET found == FirstPlayerWithId(r.players, Get(res, "authorUserId", EmptyStr))
           IN  IF found = {}
               THEN {[pc |-> "raised", error |-> "StopIteration", raised_in |-> "author",
                      replay |-> r, warnings |-> warn]}
               ELSE {[pc |-> "returned", error |-> "none", raised_in |-> "none",
                      replay |-> [r EXCEPT !.author = CHOOSE p \in found : TRUE],
                      warnings |-> warn]}
      ELSE LET user_id == Str(Get(rows[k], "userId", EmptyStr))
               info    == FindPlayerInfo(infos, user_id)
           IN  IF ~Truthy(info) THEN RowsAlone(r, res, k + 1, Append(warn, user_id))
               ELSE LET i     == CHOOSE i \in info : TRUE
                        where == CreatePlayerRaises(i, rows[k], r.battle_type, r.start_time)
                    IN  IF where # "none"
                        THEN {[pc |-> "raised", error |-> "ValueError", raised_in |-> where,
                               replay |-> r, warnings |-> warn]}
                        ELSE UNION { RowsAlone([r EXCEPT !.players = Append(@, p)], res,
                                               k + 1, warn) :
                                       p \in CreatePlayerFromJson(i, rows[k], r.battle_type,
                                                                  r.start_time) }

\* parse_replay_data(data) run alone against the executable e: the outcomes it can
\* come to
RunAlone(data, e) ==
  IF Slice(data, 0, 4) # MAGIC
  THEN {[pc |-> "raised", error |-> "ValueError", raised_in |-> "magic",
         replay |-> NewReplay, warnings |-> <<>>]}
  ELSE LET r == HeaderFields(NewReplay, data)
       IN  IF FailStep(data) <= 17
           THEN {[pc |-> "raised", error |-> HeaderRaises(data)[FailStep(data)],
                  raised_in |-> "header", replay |-> r, warnings |-> <<>>]}
           ELSE LET res == IF RezOffsetOf(data) > 0 /\ ~UnpackRawBlkRaises(e)
                           THEN UnpackRawBlk(e) ELSE EmptyDict
                IN  RowsAlone([r EXCEPT !.status = Get(res, "status", "left"),
                                        !.time_played = Get(res, "timePlayed", 0)],
                              res, 1, <<>>)

\* a call that is over has come to an outcome of the same call run alone
SameAsAlone(c) ==
  c.pc \in {"returned", "raised"} => Outcome(c) \in RunAlone(c.replay_data, c.exe)

\* C15: two parse_replay_data calls on separate byte buffers, interleaved in any way,
\* each come to the Replay or the error of the same call run alone; a step of one call
\* changes nothing of the other, and a change of the running call changes nothing of
\* either.
C15_ConcurrentDecodes ==
  [][ /\ call' = call => suspended' = suspended
      /\ call' # call => suspended' = Locals /\ Locals' = suspended
      /\ SameAsAlone(Locals')
      /\ SameAsAlone(suspended')
    ]_vars

C15_Witness ==
  /\ switches >= 3
  /\ pc = "returned"
  /\ suspended.pc = "raised"
  /\ suspended.raised_in = "platform"
  /\ replay_data # suspended.replay_data

\* the byte of a character of the model's alphabet ("?" stands for every other byte)
AsciiCode(c) ==
  CHOOSE b \in {32, 46, 47, 63, 95} \cup (65..90) \cup (97..122) : Ascii(b) = c

\* text.encode() padded with null bytes to `width`
EncodeString(text, width) ==
  [k \in 1..width |-> IF k <= Len(text) THEN AsciiCode(text[k]) ELSE 0]

\* struct.pack("<Q", int(session_id, 16))
HexToBytes(digits) ==
  LET nib == [k \in 1..16 |->
                IF k <= 16 - Len(digits) THEN 0
                ELSE LET c == digits[k - (16 - Len(digits))]
                     IN  (CHOOSE j \in 1..16 : HexDigits[j] = c) - 1]
  IN  [k \in 1..8 |-> 16 * nib[17 - 2 * k] + nib[18 - 2 * k]]

\* the byte a battle type is written as (15 for "unknown", which thirteen nibbles decode to)
DifficultyByte(battle_type) ==
  CASE battle_type = "arcade"     -> 0
    [] battle_type = "realistic"  -> 5
    [] battle_type = "simulation" -> 10
    [] OTHER                      -> 15

Region(off, width) == Slice(replay_data, off, off + width)

\* a region that is ASCII text followed by null bytes only
Plain(region) ==
  \A k \in 1..Len(region) :
     /\ region[k] < 128
     /\ region[k] = 0 => \A j \in k..Len(region) : region[j] = 0

HeaderDecoded == HasSignature /\ replay_data.len >= 1224 /\ pc \notin {"magic", "header"}

\* the integer fields written back little-endian are the bytes they were read from
IntegersRoundTrip ==
  /\ EncodeU32(replay.version) = Region(4, 4)
  /\ EncodeU32(rez_offset) = Region(684, 4)
  /\ <<replay.session_type>> = Region(724, 1)
  /\ HexToBytes(replay.session_id) = Region(732, 8)
  /\ EncodeU32(replay.start_time) = Region(908, 4)
  /\ EncodeU32(replay.time_limit_minutes) = Region(912, 4)
  /\ EncodeU32(replay.score_limit) = Region(916, 4)

\* the string fields other than the map id, as <<value, offset, width>>
StringFields ==
  {<<replay.level_settings, 136, 260>>, <<replay.environment, 524, 128>>,
   <<replay.visibility, 652, 32>>, <<replay.loc_name, 780, 128>>,
   <<replay.battle_class, 968, 128>>, <<replay.battle_kill_streak, 1096, 128>>}

\* C21 as stated: for every valid header, decoding it and writing the decoded fields
\* back at their table offsets (little-endian integers, null-padded fixed-width
\* strings) gives back the bytes of every fixed-width field.
C21_HeaderRoundTrip ==
  HeaderDecoded =>
     /\ IntegersRoundTrip
     /\ \A f \in StringFields : EncodeString(f[1], f[3]) = Region(f[2], f[3])
     /\ EncodeString(replay.level, 128) = Region(8, 128)
     /\ <<DifficultyByte(replay.battle_type)>> = Region(688, 1)

\* C21 amended: the integer fields always round-trip; a string field round-trips when
\* its region is ASCII text followed by null bytes only, the map id when moreover its
\* text holds neither "levels/" nor ".bin"; the difficulty byte when it is 0, 5 or 10.
C21_RoundTripWhereLossless ==
  HeaderDecoded =>
     /\ IntegersRoundTrip
     /\ \A f \in StringFields :
           Plain(Region(f[2], f[3])) => EncodeString(f[1], f[3]) = Region(f[2], f[3])
     /\ (/\ Plain(Region(8, 128))
         /\ ~Contains(<<"l","e","v","e","l","s","/">>, RegionText(8, 128))
         /\ ~Contains(<<".","b","i","n">>, RegionText(8, 128)))
          => EncodeString(replay.level, 128) = Region(8, 128)
     /\ ByteAt(replay_data, 688) \in {0, 5, 10}
          => <<DifficultyByte(replay.battle_type)>> = Region(688, 1)

C21_Witness ==
  /\ HeaderDecoded
  /\ pc = "results"
  /\ replay.level_settings = <<"a", " ", "a">>
  /\ EncodeString(replay.level_settings, 260) = Region(136, 260)
  /\ HexToBytes(replay.session_id) = <<42, 1, 0, 0, 0, 0, 0, 0>>

\* the counters of a participant, in the order of CounterKeys
CountersOf(player) ==
  <<player.kills.air, player.kills.ground, player.kills.naval, player.kills.team,
    player.kills.ai_air, player.kills.ai_ground, player.kills.ai_naval,
    player.assists, player.deaths, player.capture_zone, player.damage_zone,
    player.score, player.award_damage, player.missile_evades>>

\* every counter of the participant built from the one stat row is the row's value
\* under its key, 0 when the key is missing
CountersCopied ==
  \A p \in 1..Len(replay.players) :
     \A k \in 1..14 :
        CountersOf(replay.players[p])[k] = Get(PlayersArray[p], CounterKeys[k], 0)

\* C22: every counter of a built participant (air, ground, naval, team and AI kills,
\* assists, deaths, zone capture, zone damage, score, bonus damage, missile evades)
\* equals the stat row's value under its key, 0 when the key is missing; hence every
\* counter of every participant in a Record is a non-negative integer.
C22_CountersFromRow ==
  /\ CountersCopied
  /\ pc = "returned" =>
        \A p \in 1..Len(replay.players) :
           \A k \in 1..14 : CountersOf(replay.players[p])[k] >= 0

\* the session id was among the processed replays loaded at start-up (with overwriting
\* off, a cache entry is never replaced, so its path is still the processed file's)
ProcessedAtStartup(r) ==
  \E e \in loaded_replays : e.session_id = r.session_id /\ e.path.dir = "processed"

\* C23: with overwriting disabled, start_collection (ingest, then store_replay) writes
\* a processed file for every raw replay that ingests successfully and whose session id
\* was not among the processed replays loaded at start-up; only already-processed
\* replays are skipped, and the path store_replay returns is always a file in the
\* processed directory.
C23_NewReplaysStored ==
  (~allow_overwrite /\ pc = "stored") =>
     /\ ~ProcessedAtStartup(replay) => \E f \in processed_files : f.replay = replay
     /\ store_out.dir = "processed"
     /\ \E f \in processed_files : f.name = store_out.name

\* the cache entry under a session id
Cached(cache, session_id) == {e \in cache : e.session_id = session_id}

\* C24: with overwriting disabled, ingest_raw_replay_file on a replay whose session id
\* is already loaded leaves _loaded_session_ids and _loaded_replays unchanged and still
\* returns the newly parsed replay; with overwriting enabled the cached entry is
\* replaced by the new path and replay (every other entry stays).
C24_IngestFrame ==
  [][(pc = "file_returned" /\ pc' = "ingested" /\ DoesReplayExist(replay)) =>
       /\ ingested' = "replay"
       /\ replay' = replay
       /\ loaded_session_ids' = loaded_session_ids
       /\ ~allow_overwrite => loaded_replays' = loaded_replays
       /\ allow_overwrite =>
            /\ Cached(loaded_replays', replay.session_id)
                 = {[session_id |-> replay.session_id, path |-> replay_file_path,
                     replay |-> replay]}
            /\ \A e \in loaded_replays \cup loaded_replays' :
                  e.session_id # replay.session_id =>
                     (e \in loaded_replays <=> e \in loaded_replays')]_vars

\* a second file of a session already ingested has been parsed and returned, and the
\* cache still holds the first
C24_Witness ==
  /\ ~allow_overwrite
  /\ pc = "ingested"
  /\ ingested = "replay"
  /\ \E e \in loaded_replays :
        /\ e.session_id = replay.session_id
        /\ e.replay # replay
        /\ e.path # replay_file_path
        /\ e.path.dir = "raw"

\* ingest_raw_replay_file succeeds on the directory entry f: the file is there, starts
\* with the magic, and its name reads as a timestamp after at most one leading "#"
Parses(f) ==
  /\ f.path.exists
  /\ Slice(f.data, 0, 4) = MAGIC
  /\ f.path.stamp # NoTime
  /\ f.path.hashes <= 1

SessionIdOf(f) == FormatHex(Slice(f.data, OffSessionId, OffSessionId + 8))

\* the returned dict holds one entry per session id of a file that parsed, and under
\* each the replay of the last such file
ReturnsTheParsed ==
  pc \in {"directory_returned", "directory_store"} =>
     LET files == replay_directory.files
         good  == {k \in 1..Len(files) : Parses(files[k])}
     IN  /\ {replay_map[j].session_id : j \in 1..Len(replay_map)}
              = {SessionIdOf(files[k]) : k \in good}
         /\ \A i, j \in 1..Len(replay_map) :
               replay_map[i].session_id = replay_map[j].session_id => i = j
         /\ \A j \in 1..Len(replay_map) :
               LET same == {k \in good : SessionIdOf(files[k]) = replay_map[j].session_id}
                   last == CHOOSE k \in same : \A i \in same : i <= k
               IN  /\ replay_map[j].replay.session_id = replay_map[j].session_id
                   /\ replay_map[j].replay.start_time
                        = UnpackU32(Slice(files[last].data, OffStartTime, OffStartTime + 4))
                   /\ replay_map[j].replay.end_time = files[last].path.stamp

\* a step of ingest_raw_replay_file: None for a missing file, a suffix that is not
\* .wrpl or a parse that raised, and then the cache is as it was
NoneLeavesCache ==
  /\ (pc = "ingest" /\ pc' # pc
      /\ (~replay_file_path.exists
          \/ Lower(replay_file_path.suffix) # <<".","w","r","p","l">>))
       => ingested' = "None"
  /\ (pc = "file_raised" /\ pc' # pc) => ingested' = "None"
  /\ ingested' = "None" => UNCHANGED <<loaded_session_ids, loaded_replays>>
  /\ (pc = "ingested" /\ pc' # pc /\ ingested = "None") => replay_map' = replay_map
  /\ (pc = "ingested" /\ pc' = "directory_returned") => replay_files = <<>>

ExpectedRelease(releases, t) ==
  LET upto == {r \in releases : r <= t}
      from == IF upto # {} THEN upto ELSE releases
  IN  CHOOSE r \in from : \A q \in from : q <= r

\* C26: for every non-empty set of snapshots, _get_vehicle_data_bucket(t) returns the
\* snapshot with the greatest release datetime at or before t when one exists, and the
\* newest snapshot when t is earlier than all of them; the premium flag and the ratings
\* of a participant are resolved against that same snapshot.
C26_SnapshotAtOrBefore ==
  /\ \A t \in 0..MaxTime :
        GetVehicleDataBucket(service_vehicle_data, t)
          = service_vehicle_data[ExpectedRelease(DOMAIN service_vehicle_data, t)]
  /\ \A p \in 1..Len(replay.players) :
        LET player   == replay.players[p]
            snapshot == service_vehicle_data[ExpectedRelease(DOMAIN service_vehicle_data,
                                                             replay.start_time)]
            found    == {k \in 1..Len(player.lineup) : player.lineup[k] \in DOMAIN snapshot}
            ratings  == {snapshot[player.lineup[k]].realistic : k \in found}
        IN  /\ player.is_premium = (\E k \in found : snapshot[player.lineup[k]].is_premium)
            /\ player.battle_rating \in ratings
            /\ \A r \in ratings : r <= player.battle_rating
            /\ player.min_battle_rating \in ratings
            /\ \A r \in ratings : player.min_battle_rating <= r

\* a battle between the releases 10 and 30 of a catalog without release 20, with a
\* participant rated by the snapshot of release 10
C26_Witness ==
  /\ DOMAIN service_vehicle_data = {10, 30}
  /\ replay.start_time = 25
  /\ pc = "returned"
  /\ Len(replay.players) = 1
  /\ replay.players[1].battle_rating = 110

\* C27: every Record parse_replay_data returns has difficulty arcade, realistic or
\* simulation and at least one participant; when the difficulty byte decodes to
\* unknown no participant is ever built (every joined stat row raises in the rating
\* computation) and no Record is returned (with no participant the author lookup fails).
C27_KnownDifficultyAndParticipant ==
  /\ pc = "returned" =>
        /\ replay.battle_type \in {"arcade", "realistic", "simulation"}
        /\ Len(replay.players) >= 1
  /\ (replay.battle_type = "unknown" /\ pc \notin {"magic", "header"}) =>
        /\ replay.players = <<>>
        /\ pc # "returned"
        /\ pc = "raised" => raised_in \notin {"magic", "header"}

C27_Witness ==
  /\ pc = "returned"
  /\ replay.battle_type = "simulation"
  /\ Len(replay.players) >= 1
  /\ ByteAt(replay_data, OffDifficulty) = 10

\* how many ids of the lineup the catalog knows at the replay's start time
Resolved(player) ==
  Cardinality({k \in 1..Len(player.lineup) :
                 GetVehiclesByInternalName(player.lineup[k], replay.start_time) # {}})

\* C28: every participant of a returned Record has
\* min_battle_rating <= mean_battle_rating <= battle_rating, and the three are equal
\* when exactly one id of its lineup resolves in the catalog.
C28_MinMeanMax ==
  pc = "returned" =>
     \A i \in 1..Len(replay.players) :
        LET player == replay.players[i]
        IN  /\ player.min_battle_rating <= player.mean_battle_rating
            /\ player.mean_battle_rating <= player.battle_rating
            /\ Resolved(player) = 1 =>
                 /\ player.min_battle_rating = player.mean_battle_rating
                 /\ player.mean_battle_rating = player.battle_rating

C28_Witness ==
  /\ pc = "returned"
  /\ Len(replay.players) = 1
  /\ replay.players[1].lineup = <<"vx", "vb", "vx">>
  /\ Resolved(replay.players[1]) = 1
  /\ replay.players[1].min_battle_rating = replay.players[1].battle_rating

\* BattleRatingTier from the least to the most favourable to the participant
Favour(tier) ==
  CASE tier = "uptier"           -> 1
    [] tier = "partial_uptier"   -> 2
    [] tier = "balanced"         -> 3
    [] tier = "partial_downtier" -> 4
    [] tier = "downtier"         -> 5

\* C29: get_battle_rating_tier_from_delta is monotone: for d1 <= d2 the tier of d1 is
\* never more favourable to the participant than the tier of d2, in the order
\* downtier > partial downtier > balanced > partial uptier > uptier; a participant
\* classified against a match of its own rating is downtier.
C29_TierMonotone ==
  /\ (tier_out # "none" /\ tier_args.call = "from_delta") =>
        \A d \in (0 - MaxDelta)..MaxDelta :
           /\ d <= tier_args.delta =>
                Favour(GetBattleRatingTierFromDelta(d)) <= Favour(tier_out)
           /\ tier_args.delta <= d =>
                Favour(tier_out) <= Favour(GetBattleRatingTierFromDelta(d))
  /\ (tier_out # "none" /\ tier_args.call = "player"
      /\ tier_args.player = tier_args.replay) => tier_out = "downtier"

C29_Witness ==
  /\ tier_args.call = "player"
  /\ tier_args.player = 2005
  /\ tier_args.replay = 2005
  /\ tier_out = "downtier"

\* C30: in every state of ReplayManagerService, after construction and after any
\* ingest_raw_replay_file, ingest_raw_replay_files_from_directory and store_replay,
\* _loaded_session_ids is the set of keys of _loaded_replays (one entry per key) and
\* every cached replay is stored under its own session id.
C30_IdsAreKeys ==
  /\ loaded_session_ids = {e.session_id : e \in loaded_replays}
  /\ \A e1, e2 \in loaded_replays : e1.session_id = e2.session_id => e1 = e2
  /\ \A e \in loaded_replays : e.replay.session_id = e.session_id

\* two files of two sessions have been ingested next to the one loaded at start-up,
\* and store_replay has run
C30_Witness ==
  /\ pc = "directory_store"
  /\ stored >= 1
  /\ Cardinality(loaded_session_ids) = 2
  /\ \E e \in loaded_replays : e.path.dir = "processed"
  /\ \E e \in loaded_replays : e.path.dir = "raw"

====
